---------------------------- MODULE Spec2Model ----------------------------
(***************************************************************************)
(* Model of scripts/parse_dat_opt.py: the Concordance OPT/DAT load-file    *)
(* pipeline of process_dataset (image-index parser, document assembler,    *)
(* metadata parser, cross-validator).                                      *)
(*                                                                         *)
(* Text is a sequence of characters; a character is a TLA+ string.  The    *)
(* characters that are not printable ASCII are written by name:            *)
(*   "THORN" is U+00FE, "DC4" is U+0014, "SUP2" is U+00B2 (superscript 2). *)
(* A file is the sequence of its lines, each without its line terminator   *)
(* (str.strip() removes it before any line is looked at).                  *)
(***************************************************************************)
EXTENDS Integers, Sequences, FiniteSets, TLC

VARIABLES
    pc,             \* position in process_dataset
    opt_file,       \* lines of the cached .OPT file
    dat_file,       \* lines of the cached .DAT file
    line_no,        \* number of OPT lines parse_opt_file has consumed
    parts,          \* parse_opt_line's local `parts` for the last line consumed
    opt_pages,      \* parse_opt_file's `pages`
    errors,         \* parse_opt_file's `errors`
    documents,      \* build_documents_from_opt's result
    columns,        \* parse_dat_file's columns
    dat_records,    \* parse_dat_file's records (each the `fields` dict)
    dat_opt_match,  \* cross_validate's result
    summary,        \* what process_dataset prints of its DatasetResult
    mpc,            \* position in main and the function it has called
    results,        \* main's `results`
    remote_datasets,\* dataset numbers that have a row in the remote datasets table
    ds_map,         \* `ds_map` of the running function: the numbers it maps to a UUID
    idx,            \* index in `results` of the `for r in results` loop
    halt,           \* why the run left its loops early, "none" if it did not
    ds_total,               \* update_database's locals
    batch_num,
    consecutive_failures,
    attempt,
    success,
    total_updated,
    endpoint,       \* "mock": the RPC returns any row count; "rpc": it stamps rows
    remaining,      \* remote documents not yet validated, per dataset number
    stamped,        \* remote documents the RPC has validated, per dataset number
    unvalidated,    \* remote documents not validated before the first run
    calls,          \* mutation calls issued in the current dataset loop
    fails,          \* those of them not answered HTTP 200
    positives,      \* those of them answered HTTP 200 with a positive row count
    rows,           \* sum of the row counts the endpoint returned in this loop
    last_resp,      \* the answer to the last mutation call
    outcomes,       \* how each dataset loop of update_database was left
    run_no,         \* number of the current run of the script
    run_calls,      \* mutation calls issued in the current run
    args,           \* main's parsed command line
    ds_i,           \* index in `datasets` of main's `for ds_num in datasets`
    cache,          \* the files of CACHE_DIR, per dataset number and extension
    store,          \* the objects of the bucket, per dataset number and extension
    fetches,        \* downloads that stored a file, per object, over all runs
    contacts,       \* requests made to the object store, per object, over all runs
    requested,      \* the HTTP requests the current run has issued
    map_fetches,    \* how many of them were GETs of the datasets table
    total_db,               \* verify_database's locals
    total_opt,
    mismatches,
    report,         \* the per-dataset lines verify_database has printed
    issues,                 \* verify_page_counts's locals
    checked,
    order_i,        \* how many of the two order_param requests are done
    progress_file,  \* hoarder-progress.json: whether it exists and what it holds
    data,           \* ProgressTracker's self.data
    fresh,          \* no method of the tracker was called since it was constructed
    marked,         \* paths mark_uploaded was called with on this tracker
    saved_marked,   \* paths marked on a tracker that was saved afterwards
    upc,            \* position in upload_directory
    use_tracker,    \* upload_directory was given a progress_tracker
    manifest,       \* upload_directory's manifest (the paths of its entries)
    skip_matched,   \* the paths that match one of skip_patterns
    to_upload,      \* upload_directory's to_upload
    workers,        \* max_workers of the thread pool
    up_idx,         \* `idx` of upload_directory
    futures,        \* upload_directory's futures: the state of each outstanding upload
    stats,          \* upload_directory's stats
    submitted       \* how many times each path was submitted to the pool

proc_vars == <<pc, opt_file, dat_file, line_no, parts, opt_pages, errors,
               documents, columns, dat_records, dat_opt_match, summary>>

remote_vars == <<endpoint, remaining, stamped, unvalidated, remote_datasets>>

update_vars == <<ds_total, batch_num, consecutive_failures, attempt, success,
                 total_updated, calls, fails, positives, rows, last_resp,
                 outcomes, run_calls>>

verify_vars == <<total_db, total_opt, mismatches, report>>

spot_vars == <<issues, checked, order_i>>

io_vars == <<requested, map_fetches>>

download_vars == <<ds_i, cache, store, fetches, contacts>>

tracker_vars == <<progress_file, data, fresh, marked, saved_marked>>

upload_vars == <<upc, use_tracker, manifest, skip_matched, to_upload, workers, up_idx,
                 futures, stats, submitted>>

hoard_vars == <<tracker_vars, upload_vars>>

\* The variables of parse_dat_opt.py outside process_dataset.
script_vars == <<mpc, results, ds_map, idx, halt, run_no, args, io_vars,
                 download_vars, remote_vars, verify_vars, spot_vars, update_vars>>

main_vars == <<script_vars, hoard_vars>>

vars == <<proc_vars, main_vars>>

\* args: --dataset (0 when not given), --verify, --update, --no-download
Args(dataset, verify, update, no_download) ==
    [dataset |-> dataset, verify |-> verify, update |-> update,
     no_download |-> no_download]

\* upload_directory (hoarder/uploader.py) is not running.
UploadIdle ==
    /\ upc = "idle"
    /\ use_tracker = FALSE
    /\ manifest = <<>>
    /\ skip_matched = {}
    /\ to_upload = <<>>
    /\ workers = 0
    /\ up_idx = 0
    /\ futures = <<>>
    /\ stats = <<>>
    /\ submitted = <<>>

\* The hoarder (hoarder/progress.py, hoarder/uploader.py) is not running.
HoardIdle ==
    /\ progress_file = <<>>
    /\ data = <<>>
    /\ fresh = FALSE
    /\ marked = {}
    /\ saved_marked = {}
    /\ UploadIdle

\* The cache and the object store are not looked at.
DownloadIdle ==
    /\ ds_i = 0
    /\ cache = <<>>
    /\ store = <<>>
    /\ fetches = <<>>
    /\ contacts = <<>>

\* verify_database and verify_page_counts are not running.
VerifyIdle ==
    /\ total_db = 0
    /\ total_opt = 0
    /\ mismatches = <<>>
    /\ report = <<>>
    /\ issues = 0
    /\ checked = 0
    /\ order_i = 0

\* No answer received yet.
NoResp ==
    [status |-> 0, exc |-> "none", rows |-> 0, has_range |-> FALSE,
     content_range |-> <<>>, body |-> <<>>]

\* The state of everything outside process_dataset while it runs on its own.
MainIdle ==
    /\ mpc = "process"
    /\ args = Args(1, FALSE, FALSE, FALSE)
    /\ DownloadIdle
    /\ results = <<>>
    /\ remote_datasets = {}
    /\ ds_map = {}
    /\ idx = 0
    /\ halt = "none"
    /\ ds_total = 0
    /\ batch_num = 0
    /\ consecutive_failures = 0
    /\ attempt = 0
    /\ success = FALSE
    /\ total_updated = 0
    /\ endpoint = "mock"
    /\ remaining = <<>>
    /\ stamped = <<>>
    /\ unvalidated = <<>>
    /\ calls = 0
    /\ fails = 0
    /\ positives = 0
    /\ rows = 0
    /\ last_resp = NoResp
    /\ outcomes = <<>>
    /\ run_no = 1
    /\ run_calls = 0
    /\ requested = {}
    /\ map_fetches = 0
    /\ VerifyIdle

-----------------------------------------------------------------------------
(* Characters and str helpers *)

DQUOTE == "\""
COMMA == ","
BACKSLASH == "\\"
SLASH == "/"
DOT == "."
THORN == "THORN"
TEXT_QUAL == "DC4"

\* Characters str.strip() removes (the whitespace class, as far as modelled).
Whitespace == {" ", "\t"}

\* Characters for which str.isdigit() is true and int() accepts.
DecimalDigits == {"0", "1", "2", "3", "4", "5", "6", "7", "8", "9"}

\* Characters for which str.isdigit() is true although int() rejects them
\* (Unicode Numeric_Type=Digit that is not Decimal, e.g. superscript two).
NonDecimalDigits == {"SUP2"}

DigitValue(c) ==
    CASE c = "0" -> 0 [] c = "1" -> 1 [] c = "2" -> 2 [] c = "3" -> 3
      [] c = "4" -> 4 [] c = "5" -> 5 [] c = "6" -> 6 [] c = "7" -> 7
      [] c = "8" -> 8 [] c = "9" -> 9

\* str.lower() on the letters the model uses.
Lower(c) ==
    CASE c = "A" -> "a" [] c = "B" -> "b" [] c = "C" -> "c" [] c = "T" -> "t"
      [] c = "V" -> "v" [] c = "Y" -> "y" [] c = "N" -> "n" [] OTHER -> c

RECURSIVE LowerStr(_)
LowerStr(s) == IF s = <<>> THEN <<>> ELSE <<Lower(Head(s))>> \o LowerStr(Tail(s))

RECURSIVE LStrip(_, _)
LStrip(s, cs) ==
    IF s # <<>> /\ Head(s) \in cs THEN LStrip(Tail(s), cs) ELSE s

RECURSIVE RStrip(_, _)
RStrip(s, cs) ==
    IF s # <<>> /\ s[Len(s)] \in cs THEN RStrip(SubSeq(s, 1, Len(s) - 1), cs) ELSE s

\* str.strip(): leading and trailing whitespace removed.
Strip(s) == RStrip(LStrip(s, Whitespace), Whitespace)

\* str.strip(chars)
StripChars(s, cs) == RStrip(LStrip(s, cs), cs)

\* s[i..] starts with sep
StartsWithAt(s, i, sep) ==
    /\ i + Len(sep) - 1 <= Len(s)
    /\ \A k \in 1..Len(sep) : s[i + k - 1] = sep[k]

\* str.split(sep) for a non-empty sep: left to right, non-overlapping.
RECURSIVE SplitLoop(_, _, _, _, _)
SplitLoop(s, sep, i, current, out) ==
    IF i > Len(s) THEN Append(out, current)
    ELSE IF StartsWithAt(s, i, sep)
         THEN SplitLoop(s, sep, i + Len(sep), <<>>, Append(out, current))
         ELSE SplitLoop(s, sep, i + 1, Append(current, s[i]), out)

Split(s, sep) == SplitLoop(s, sep, 1, <<>>, <<>>)

\* str.isdigit(): non-empty and every character a digit.
IsDigit(s) == s # <<>> /\ \A i \in 1..Len(s) : s[i] \in DecimalDigits \cup NonDecimalDigits

\* int(s) accepts s (called only where isdigit() held, so no sign or blank).
IntAccepts(s) == s # <<>> /\ \A i \in 1..Len(s) : s[i] \in DecimalDigits

RECURSIVE IntOf(_)
IntOf(s) ==
    IF s = <<>> THEN 0
    ELSE 10 * IntOf(SubSeq(s, 1, Len(s) - 1)) + DigitValue(s[Len(s)])

\* str.replace(old, new) for single characters.
RECURSIVE ReplaceChar(_, _, _)
ReplaceChar(s, old, new) ==
    IF s = <<>> THEN <<>>
    ELSE <<IF Head(s) = old THEN new ELSE Head(s)>> \o ReplaceChar(Tail(s), old, new)

-----------------------------------------------------------------------------
(* OPT parser *)

\* The character loop of parse_opt_line over the stripped line.
RECURSIVE FieldLoop(_, _, _, _, _)
FieldLoop(trimmed, i, out, current, in_quotes) ==
    IF i > Len(trimmed) THEN Append(out, current)
    ELSE LET ch == trimmed[i] IN
         IF ch = DQUOTE
         THEN FieldLoop(trimmed, i + 1, out, current, ~in_quotes)
         ELSE IF ch = COMMA /\ ~in_quotes
              THEN FieldLoop(trimmed, i + 1, Append(out, current), <<>>, in_quotes)
              ELSE FieldLoop(trimmed, i + 1, out, Append(current, ch), in_quotes)

SplitFieldsNaive(trimmed) == Split(trimmed, <<COMMA>>)

\* `parts` of parse_opt_line for a stripped, non-empty line.
SplitFields(trimmed) == FieldLoop(trimmed, 1, <<>>, <<>>, FALSE)

NoPage == [kind |-> "none"]
Raised == [kind |-> "raise"]

OPTPage(bates, vol, img, brk, pcf) ==
    [kind |-> "page", bates_number |-> bates, volume_label |-> vol,
     image_path |-> img, document_break |-> brk, page_count_field |-> pcf]

\* parse_opt_line: a page, None ("none"), or the ValueError of int() ("raise").
parse_opt_line(line) ==
    LET trimmed == Strip(line) IN
    IF trimmed = <<>> THEN NoPage
    ELSE LET p == SplitFields(trimmed) IN
         IF Len(p) < 4 THEN NoPage
         ELSE LET pc_str == IF Len(p) > 6 /\ p[7] # <<>> THEN p[7] ELSE <<"1">> IN
              IF IsDigit(pc_str) /\ ~IntAccepts(pc_str) THEN Raised
              ELSE OPTPage(p[1], p[2], ReplaceChar(p[3], BACKSLASH, SLASH),
                           p[4] = <<"Y">>,
                           IF IsDigit(pc_str) THEN IntOf(pc_str) ELSE 1)

\* What parse_opt_line leaves in `parts` (nothing when it returns at the blank test).
PartsOf(line) == IF Strip(line) = <<>> THEN <<>> ELSE SplitFields(Strip(line))

-----------------------------------------------------------------------------
(* Document assembler *)

\* DATASET_PATHS[ds_num][1], the volume base path of the dataset processed.
VolumeBase == <<"v", "b">>

UNKNOWN == <<"u", "n", "k", "n", "o", "w", "n">>

NoDoc == [kind |-> "none"]

Last(s) == s[Len(s)]

RECURSIVE BatesOf(_)
BatesOf(pages) ==
    IF pages = <<>> THEN <<>>
    ELSE <<Head(pages).bates_number>> \o BatesOf(Tail(pages))

Document(pages, volume_base, efta_end, page_count) ==
    LET first == pages[1]
        filename == Last(Split(first.image_path, <<SLASH>>))
        ext == IF \E i \in 1..Len(filename) : filename[i] = DOT
               THEN LowerStr(Last(Split(filename, <<DOT>>)))
               ELSE UNKNOWN
    IN [kind |-> "doc",
        efta_start |-> first.bates_number,
        efta_end |-> efta_end,
        page_count |-> page_count,
        filename |-> filename,
        storage_path |-> volume_base \o <<SLASH>> \o first.image_path,
        file_type |-> ext,
        volume_label |-> first.volume_label,
        pages |-> BatesOf(pages)]

\* A slip: the end identifier and the count taken from the first page.
CreateDocumentFirstOnly(pages, volume_base) ==
    IF pages = <<>> THEN NoDoc
    ELSE Document(pages, volume_base, pages[1].bates_number, pages[1].page_count_field)

_create_document(pages, volume_base) ==
    IF pages = <<>> THEN NoDoc
    ELSE Document(pages, volume_base, Last(pages).bates_number, Len(pages))

\* documents.append(doc) under `if doc:`
AppendDoc(docs, doc) == IF doc.kind = "doc" THEN Append(docs, doc) ELSE docs

\* The loop of build_documents_from_opt from page i on, then the final run.
RECURSIVE AssembleLoop(_, _, _, _, _)
AssembleLoop(pages, volume_base, i, docs, current_pages) ==
    IF i > Len(pages)
    THEN IF current_pages # <<>>
         THEN AppendDoc(docs, _create_document(current_pages, volume_base))
         ELSE docs
    ELSE IF pages[i].document_break /\ current_pages # <<>>
         THEN AssembleLoop(pages, volume_base, i + 1,
                           AppendDoc(docs, _create_document(current_pages, volume_base)),
                           <<pages[i]>>)
         ELSE AssembleLoop(pages, volume_base, i + 1, docs, Append(current_pages, pages[i]))

\* A slip: the run still open at the end of input is never closed.
RECURSIVE LoopNoFinalRun(_, _, _, _, _)
LoopNoFinalRun(pages, volume_base, i, docs, current_pages) ==
    IF i > Len(pages) THEN docs
    ELSE IF pages[i].document_break /\ current_pages # <<>>
         THEN LoopNoFinalRun(pages, volume_base, i + 1,
                             AppendDoc(docs, _create_document(current_pages, volume_base)),
                             <<pages[i]>>)
         ELSE LoopNoFinalRun(pages, volume_base, i + 1, docs, Append(current_pages, pages[i]))

BuildNoFinalRun(pages, volume_base) == LoopNoFinalRun(pages, volume_base, 1, <<>>, <<>>)

\* A slip: the flag is not tested, every non-empty run is closed.
RECURSIVE LoopBreakAlways(_, _, _, _, _)
LoopBreakAlways(pages, volume_base, i, docs, current_pages) ==
    IF i > Len(pages)
    THEN IF current_pages # <<>>
         THEN AppendDoc(docs, _create_document(current_pages, volume_base))
         ELSE docs
    ELSE IF current_pages # <<>>
         THEN LoopBreakAlways(pages, volume_base, i + 1,
                              AppendDoc(docs, _create_document(current_pages, volume_base)),
                              <<pages[i]>>)
         ELSE LoopBreakAlways(pages, volume_base, i + 1, docs, Append(current_pages, pages[i]))

BuildBreakAlways(pages, volume_base) == LoopBreakAlways(pages, volume_base, 1, <<>>, <<>>)

\* A slip: only a flagged page opens a run, pages before the first flag are dropped.
RECURSIVE LoopDropLeading(_, _, _, _, _)
LoopDropLeading(pages, volume_base, i, docs, current_pages) ==
    IF i > Len(pages)
    THEN IF current_pages # <<>>
         THEN AppendDoc(docs, _create_document(current_pages, volume_base))
         ELSE docs
    ELSE IF pages[i].document_break
         THEN LoopDropLeading(pages, volume_base, i + 1,
                              AppendDoc(docs, _create_document(current_pages, volume_base)),
                              <<pages[i]>>)
         ELSE LoopDropLeading(pages, volume_base, i + 1, docs,
                              IF current_pages # <<>> THEN Append(current_pages, pages[i])
                              ELSE current_pages)

BuildDropLeading(pages, volume_base) == LoopDropLeading(pages, volume_base, 1, <<>>, <<>>)

build_documents_from_opt(pages, volume_base) ==
    AssembleLoop(pages, volume_base, 1, <<>>, <<>>)

-----------------------------------------------------------------------------
(* DAT parser *)

\* THORN + TEXT_QUAL + THORN, the separator parse_dat_file splits on.
FieldSep == <<THORN, TEXT_QUAL, THORN>>

EmptyDict == [c \in {} |-> <<>>]

\* record[col] = v on a dict
Put(rec, col, v) == [c \in DOMAIN rec \cup {col} |-> IF c = col THEN v ELSE rec[c]]

\* dict.get(key, default)
Get(rec, key, default) == IF key \in DOMAIN rec THEN rec[key] ELSE default

\* for i, col in enumerate(columns): record[col] = values[i] if i < len(values) else ""
RECURSIVE RecordLoop(_, _, _, _)
RecordLoop(cols, values, i, rec) ==
    IF i > Len(cols) THEN rec
    ELSE RecordLoop(cols, values, i + 1,
                    Put(rec, cols[i], IF i <= Len(values) THEN values[i] ELSE <<>>))

\* `values` of a stripped, non-empty record line.
DatValues(line) == Split(StripChars(line, {THORN}), FieldSep)

\* A slip: a value is stored only where the line has one (no padding).
RECURSIVE RecordLoopNoPad(_, _, _, _)
RecordLoopNoPad(cols, values, i, rec) ==
    IF i > Len(cols) \/ i > Len(values) THEN rec
    ELSE RecordLoopNoPad(cols, values, i + 1, Put(rec, cols[i], values[i]))

MakeRecordNoPad(cols, line) == RecordLoopNoPad(cols, DatValues(line), 1, EmptyDict)

\* The body of parse_dat_file's loop for one non-blank line.
MakeRecord(cols, line) == RecordLoop(cols, DatValues(line), 1, EmptyDict)

RECURSIVE DatLoop(_, _, _, _)
DatLoop(lines, cols, i, records) ==
    IF i > Len(lines) THEN records
    ELSE LET line == Strip(lines[i]) IN
         IF line = <<>> THEN DatLoop(lines, cols, i + 1, records)
         ELSE DatLoop(lines, cols, i + 1, Append(records, MakeRecord(cols, line)))

\* parse_dat_file: <<columns, records>>
parse_dat_file(lines) ==
    IF lines = <<>> THEN <<(<<>>), (<<>>)>>
    ELSE LET header == StripChars(Strip(lines[1]), {THORN})
             cols == Split(header, FieldSep)
         IN <<cols, DatLoop(lines, cols, 2, <<>>)>>

-----------------------------------------------------------------------------
(* Cross-validation *)

BEGIN_BATES == <<"B", "e", "g", "i", "n", " ", "B", "a", "t", "e", "s">>
END_BATES == <<"E", "n", "d", " ", "B", "a", "t", "e", "s">>

\* zip(documents, dat_records) stops at the shorter list.
Min(a, b) == IF a <= b THEN a ELSE b

RECURSIVE ZipLoop(_, _, _)
ZipLoop(docs, recs, i) ==
    IF i > Min(Len(docs), Len(recs)) THEN TRUE
    ELSE LET begin == Get(recs[i], BEGIN_BATES, <<>>)
             end == Get(recs[i], END_BATES, <<>>)
         IN IF docs[i].efta_start # begin \/ docs[i].efta_end # end
            THEN FALSE
            ELSE ZipLoop(docs, recs, i + 1)

\* A slip: the length test left out.
CrossValidateNoCount(docs, recs) == ZipLoop(docs, recs, 1)

\* A slip: the end identifier compared with the begin field.
RECURSIVE ZipLoopEndVsBegin(_, _, _)
ZipLoopEndVsBegin(docs, recs, i) ==
    IF i > Min(Len(docs), Len(recs)) THEN TRUE
    ELSE LET begin == Get(recs[i], BEGIN_BATES, <<>>)
         IN IF docs[i].efta_start # begin \/ docs[i].efta_end # begin
            THEN FALSE
            ELSE ZipLoopEndVsBegin(docs, recs, i + 1)

CrossValidateEndVsBegin(docs, recs) ==
    IF Len(docs) # Len(recs) THEN FALSE ELSE ZipLoopEndVsBegin(docs, recs, 1)

\* A slip: an absent column read as the document's own identifier.
RECURSIVE ZipLoopAbsentAgrees(_, _, _)
ZipLoopAbsentAgrees(docs, recs, i) ==
    IF i > Min(Len(docs), Len(recs)) THEN TRUE
    ELSE LET begin == Get(recs[i], BEGIN_BATES, docs[i].efta_start)
             end == Get(recs[i], END_BATES, docs[i].efta_end)
         IN IF docs[i].efta_start # begin \/ docs[i].efta_end # end
            THEN FALSE
            ELSE ZipLoopAbsentAgrees(docs, recs, i + 1)

CrossValidateAbsentAgrees(docs, recs) ==
    IF Len(docs) # Len(recs) THEN FALSE ELSE ZipLoopAbsentAgrees(docs, recs, 1)

\* A slip: two empty lists taken for a mismatch.
CrossValidateNonEmpty(docs, recs) ==
    IF Len(docs) # Len(recs) \/ docs = <<>> THEN FALSE ELSE ZipLoop(docs, recs, 1)

cross_validate(docs, recs) ==
    IF Len(docs) # Len(recs) THEN FALSE ELSE ZipLoop(docs, recs, 1)

\* A slip: the condition of match_str inverted.
MatchStrInverted(match) == IF match THEN "NO - MISMATCH" ELSE "YES"

\* match_str of process_dataset
MatchStr(match) == IF match THEN "YES" ELSE "NO - MISMATCH"

\* max(..., default=0) over the documents' page counts
MaxPageCount(docs) ==
    IF docs = <<>> THEN 0
    ELSE CHOOSE m \in {docs[i].page_count : i \in 1..Len(docs)} :
             \A i \in 1..Len(docs) : docs[i].page_count <= m

NoSummary == [printed |-> FALSE]

\* The DatasetResult fields process_dataset prints, and match_str.
Summary(pages, docs, cols, recs, match) ==
    [printed |-> TRUE,
     opt_pages |-> Len(pages),
     opt_documents |-> Len(docs),
     multi_page_docs |-> Cardinality({i \in 1..Len(docs) : docs[i].page_count > 1}),
     max_page_count |-> MaxPageCount(docs),
     efta_start |-> IF docs # <<>> THEN docs[1].efta_start ELSE <<"?">>,
     efta_end |-> IF docs # <<>> THEN Last(docs).efta_end ELSE <<"?">>,
     dat_columns |-> cols,
     dat_records |-> Len(recs),
     match_str |-> MatchStr(match)]

-----------------------------------------------------------------------------
(* process_dataset, from the point where both load files are in the cache *)

InitWith(optFiles, datFiles) ==
    /\ opt_file \in optFiles
    /\ dat_file \in datFiles
    /\ pc = "parse_opt"
    /\ line_no = 0
    /\ parts = <<>>
    /\ opt_pages = <<>>
    /\ errors = 0
    /\ documents = <<>>
    /\ columns = <<>>
    /\ dat_records = <<>>
    /\ dat_opt_match = FALSE
    /\ summary = NoSummary
    /\ MainIdle
    /\ HoardIdle

\* One iteration of parse_opt_file's loop.
ParseOptLine ==
    /\ pc = "parse_opt"
    /\ line_no < Len(opt_file)
    /\ LET line == opt_file[line_no + 1]
           p == parse_opt_line(line)
       IN /\ line_no' = line_no + 1
          /\ parts' = PartsOf(line)
          /\ pc' = IF p.kind = "raise" THEN "crashed" ELSE "parse_opt"
          /\ opt_pages' = IF p.kind = "page" THEN Append(opt_pages, p) ELSE opt_pages
          /\ errors' = IF p.kind = "none" /\ Strip(line) # <<>> THEN errors + 1 ELSE errors
    /\ UNCHANGED <<opt_file, dat_file, documents, columns, dat_records,
                   dat_opt_match, summary>>
    /\ UNCHANGED main_vars

\* parse_opt_file returns; build_documents_from_opt runs on its pages.
BuildDocuments ==
    /\ pc = "parse_opt"
    /\ line_no = Len(opt_file)
    /\ documents' = build_documents_from_opt(opt_pages, VolumeBase)
    /\ pc' = "parse_dat"
    /\ UNCHANGED <<opt_file, dat_file, line_no, parts, opt_pages, errors,
                   columns, dat_records, dat_opt_match, summary>>
    /\ UNCHANGED main_vars

ParseDatFile ==
    /\ pc = "parse_dat"
    /\ LET r == parse_dat_file(dat_file)
       IN /\ columns' = r[1]
          /\ dat_records' = r[2]
    /\ pc' = "cross_validate"
    /\ UNCHANGED <<opt_file, dat_file, line_no, parts, opt_pages, errors,
                   documents, dat_opt_match, summary>>
    /\ UNCHANGED main_vars

\* cross_validate, the DatasetResult and its printed summary.
CrossValidate ==
    /\ pc = "cross_validate"
    /\ dat_opt_match' = cross_validate(documents, dat_records)
    /\ summary' = Summary(opt_pages, documents, columns, dat_records, dat_opt_match')
    /\ pc' = "done"
    /\ UNCHANGED <<opt_file, dat_file, line_no, parts, opt_pages, errors,
                   documents, columns, dat_records>>
    /\ UNCHANGED main_vars

Next == ParseOptLine \/ BuildDocuments \/ ParseDatFile \/ CrossValidate

-----------------------------------------------------------------------------
(* Inputs: the load files a run may find in its cache *)

\* All sequences over S of length at most n.
RECURSIVE SeqsUpTo(_, _)
SeqsUpTo(S, n) ==
    IF n = 0 THEN {<<>>}
    ELSE LET P == SeqsUpTo(S, n - 1) IN P \cup {Append(q, c) : q \in P, c \in S}

MaxOptLines == 3
MaxLineLen == 6
MaxXVPages == 2
MaxDatLines == 2

BatesA == <<"A">>
BatesB == <<"B">>
FlagY == <<"Y">>

\* BatesNumber,VolumeLabel,ImageFilePath,DocumentBreak
OptLine(bates, flag) ==
    bates \o <<COMMA, "V", COMMA, "I", BACKSLASH, "p", DOT, "T", COMMA>> \o flag

GoodOptLines == {OptLine(b, f) : b \in {BatesA, BatesB}, f \in {FlagY, <<>>}}

OddOptLines ==
    { <<>>,
      <<" ", "\t">>,
      <<"A">>,
      <<"A", COMMA, "V", COMMA, "p">>,
      <<"A", COMMA, DQUOTE, "V", COMMA, "p", DQUOTE, COMMA, "Y">>,
      <<"B", COMMA, DQUOTE, "V", COMMA, "V", DQUOTE, COMMA, "p", COMMA, "Y">>,
      <<" ">> \o OptLine(BatesB, <<>>) \o <<" ">>,
      OptLine(BatesB, <<"N">>),
      OptLine(BatesA, FlagY) \o <<COMMA, COMMA, COMMA, "1", "2">>,
      OptLine(BatesA, <<>>) \o <<COMMA, COMMA, COMMA, "x">>,
      OptLine(BatesB, FlagY) \o <<COMMA, COMMA, COMMA, "SUP2">> }

\* Image-index files of whole lines, well-formed and not.
OptFiles == SeqsUpTo(GoodOptLines \cup OddOptLines, MaxOptLines)

\* Image-index files of one line, every text over LineAlphabet.
LineAlphabet == {"A", "Y", COMMA, DQUOTE, " "}
OneLineOptFiles == {<<l>> : l \in SeqsUpTo(LineAlphabet, MaxLineLen)}

\* Image-index files of well-formed lines only.
XVOptFiles == SeqsUpTo(GoodOptLines, MaxXVPages)

Wrapped(values) == <<THORN>> \o values \o <<THORN>>

StdHeader == Wrapped(BEGIN_BATES \o FieldSep \o END_BATES)

DatLine(begin, end) == Wrapped(begin \o FieldSep \o end)

DatHeaders ==
    { StdHeader,
      Wrapped(BEGIN_BATES),
      Wrapped(BEGIN_BATES \o FieldSep \o BEGIN_BATES),
      <<" ">> \o END_BATES \o FieldSep \o BEGIN_BATES \o <<" ">> }

DatLines ==
    { DatLine(BatesA, BatesA), DatLine(BatesA, BatesB), DatLine(BatesB, BatesB),
      Wrapped(BatesA),
      Wrapped(BatesA \o FieldSep \o BatesB \o FieldSep \o BatesA),
      <<" ">> }

\* Metadata files: empty, or a header and up to MaxDatLines further lines.
DatFiles ==
    {<<>>} \cup {<<h>> \o body : h \in DatHeaders, body \in SeqsUpTo(DatLines, MaxDatLines)}

StdDatFile == <<StdHeader, DatLine(BatesA, BatesB)>>

-----------------------------------------------------------------------------
(* Specifications *)

\* Whole image-index files against one metadata file.
Init == InitWith(OptFiles, {StdDatFile})
Spec == Init /\ [][Next]_vars

\* Every one-line image-index file over LineAlphabet.
InitOptLine == InitWith(OneLineOptFiles, {StdDatFile})
SpecOptLine == InitOptLine /\ [][Next]_vars

\* Well-formed image-index files against every metadata file.
InitXV == InitWith(XVOptFiles, DatFiles)
SpecXV == InitXV /\ [][Next]_vars

-----------------------------------------------------------------------------
(* Properties of the document assembler *)

\* build_documents_from_opt has returned.
Assembled == pc \in {"parse_dat", "cross_validate", "done"}

RECURSIVE ConcatPages(_)
ConcatPages(docs) ==
    IF docs = <<>> THEN <<>> ELSE Head(docs).pages \o ConcatPages(Tail(docs))

RECURSIVE PageIds(_, _)
PageIds(pages, i) ==
    IF i > Len(pages) THEN <<>> ELSE <<pages[i].bates_number>> \o PageIds(pages, i + 1)

\* C1: once the assembler has returned, the page lists of its documents,
\* concatenated in output order, are exactly the bates numbers of the input
\* pages in input order: no page lost, duplicated or reordered.
C1_Partition == Assembled => ConcatPages(documents) = PageIds(opt_pages, 1)

C1_Witness ==
    /\ Assembled
    /\ Len(opt_pages) = 3
    /\ Len(documents) = 2
    /\ \E k \in 1..2 : Len(documents[k].pages) = 2

RECURSIVE PagesBefore(_, _)
PagesBefore(docs, k) ==
    IF k <= 1 THEN 0 ELSE Len(docs[k - 1].pages) + PagesBefore(docs, k - 1)

\* The positions, in the page sequence, at which a document starts.
DocStarts(docs) == {1 + PagesBefore(docs, k) : k \in 1..Len(docs)}

FlaggedAfterFirst(pages) == {i \in 2..Len(pages) : pages[i].document_break}

\* C2: a document starts at page i > 1 exactly when page i has document_break
\* set; a non-empty input gives 1 + (number of flagged pages after the first)
\* documents, the first starting at page 1; so a flagged page is never at a
\* position other than the first of a document.
C2_BoundaryRule ==
    Assembled =>
        /\ \A i \in 2..Len(opt_pages) :
               (i \in DocStarts(documents)) <=> opt_pages[i].document_break
        /\ opt_pages # <<>> =>
               /\ 1 \in DocStarts(documents)
               /\ Len(documents) = 1 + Cardinality(FlaggedAfterFirst(opt_pages))
        /\ opt_pages = <<>> => documents = <<>>

\* The example of the specification: flags Y, blank, Y give [p1, p2] and [p3].
C2_Witness ==
    /\ Assembled
    /\ Len(opt_pages) = 3
    /\ opt_pages[1].document_break
    /\ ~opt_pages[2].document_break
    /\ opt_pages[3].document_break
    /\ Len(documents) = 2
    /\ documents[1].pages = <<opt_pages[1].bates_number, opt_pages[2].bates_number>>
    /\ documents[2].pages = <<opt_pages[3].bates_number>>

\* The page sequence with the flag of its first page set.
FirstFlagSet(pages) ==
    IF pages = <<>> THEN pages
    ELSE <<[pages[1] EXCEPT !.document_break = TRUE]>> \o Tail(pages)

\* C3: when the first page has document_break unset (also when it is the only
\* page), the assembler still returns a non-empty first document that starts
\* at that page, and the result is the one it returns with that flag set.
C3_FirstDocument ==
    (Assembled /\ opt_pages # <<>> /\ ~opt_pages[1].document_break) =>
        /\ documents # <<>>
        /\ documents[1].page_count >= 1
        /\ documents[1].efta_start = opt_pages[1].bates_number
        /\ documents = build_documents_from_opt(FirstFlagSet(opt_pages), VolumeBase)

C3_Witness ==
    /\ Assembled
    /\ Len(opt_pages) >= 2
    /\ ~opt_pages[1].document_break
    /\ Len(documents) = 2
    /\ documents[1].efta_start = opt_pages[1].bates_number

\* C4: every document of the assembler has page_count = the length of its
\* page list, at least one page, efta_start = the first and efta_end = the
\* last element of the list.
C4_DocumentShape ==
    Assembled =>
        \A k \in 1..Len(documents) :
            LET d == documents[k] IN
            /\ d.page_count = Len(d.pages)
            /\ d.page_count >= 1
            /\ d.efta_start = d.pages[1]
            /\ d.efta_end = d.pages[Len(d.pages)]

C4_Witness ==
    /\ Assembled
    /\ \E k \in 1..Len(documents) :
           /\ documents[k].page_count = 2
           /\ documents[k].efta_start # documents[k].efta_end

-----------------------------------------------------------------------------
(* Properties of the cross-validator *)

Done == pc = "done"

\* The positional pairs whose boundary identifiers differ (an absent column
\* reads as the empty string, as cross_validate reads it).
MismatchedPairs(docs, recs) ==
    {i \in 1..Min(Len(docs), Len(recs)) :
        \/ docs[i].efta_start # Get(recs[i], BEGIN_BATES, <<>>)
        \/ docs[i].efta_end # Get(recs[i], END_BATES, <<>>)}

\* C5: cross_validate is true exactly when the two lists have the same
\* length and every positional pair agrees on both boundary identifiers; any
\* single count or value mismatch makes it false.
C5_CrossValidateIff ==
    Done =>
        (dat_opt_match <=>
            /\ Len(documents) = Len(dat_records)
            /\ MismatchedPairs(documents, dat_records) = {})

\* Two documents and two records that differ in one end identifier only.
C5_Witness ==
    /\ Done
    /\ Len(documents) = 2
    /\ Len(dat_records) = 2
    /\ MismatchedPairs(documents, dat_records) = {2}
    /\ documents[2].efta_start = Get(dat_records[2], BEGIN_BATES, <<>>)
    /\ ~dat_opt_match

\* One record per document, in order, with exactly the two boundary columns.
RECURSIVE RecordsFrom(_)
RecordsFrom(docs) ==
    IF docs = <<>> THEN <<>>
    ELSE <<(BEGIN_BATES :> Head(docs).efta_start) @@ (END_BATES :> Head(docs).efta_end)>>
         \o RecordsFrom(Tail(docs))

\* C6: when the metadata records are the ones generated from the assembled
\* documents (Begin Bates = efta_start, End Bates = efta_end, same order),
\* cross-validation returns true.
C6_RoundTrip == (Done /\ dat_records = RecordsFrom(documents)) => dat_opt_match

C6_Witness ==
    /\ Done
    /\ documents # <<>>
    /\ dat_records = RecordsFrom(documents)
    /\ documents[1].efta_start # documents[1].efta_end
    /\ dat_opt_match

\* N documents against N - 1 records.
CountShort(docs, recs) == Len(docs) = Len(recs) + 1

\* Equal counts and exactly one positional pair that differs.
OnePair(docs, recs) ==
    Len(docs) = Len(recs) /\ Cardinality(MismatchedPairs(docs, recs)) = 1

\* Why a validation failed: the counts, or the pairs that differ.
Reason(docs, recs) ==
    IF Len(docs) # Len(recs) THEN [kind |-> "count", pairs |-> {}]
    ELSE [kind |-> "pairs", pairs |-> MismatchedPairs(docs, recs)]

\* The metadata files with the header of the one processed.
SameHeaderDatFiles == {d \in DatFiles : d # <<>> /\ dat_file # <<>> /\ d[1] = dat_file[1]}

\* What process_dataset prints for the documents at hand when the metadata
\* file parses to r = <<columns, records>>.
SummaryWith(r) ==
    Summary(opt_pages, documents, r[1], r[2], cross_validate(documents, r[2]))

-----------------------------------------------------------------------------
(* Properties of the image-index parser *)

\* parse_opt_file has returned its pages.
OptReturned == pc \in {"parse_dat", "cross_validate", "done"}

NonBlank(line) == Strip(line) # <<>>

\* A non-blank line that yields at least four fields.
IsPageLine(line) == NonBlank(line) /\ Len(SplitFields(Strip(line))) >= 4

\* A non-blank line that yields fewer than four fields.
IsErrorLine(line) == NonBlank(line) /\ Len(SplitFields(Strip(line))) < 4

PageLines == SelectSeq(opt_file, IsPageLine)

\* The pages returned are the page lines of the file, one each, in file order,
\* and the error count is the number of error lines.
PagesAndErrorsExact ==
    /\ Len(opt_pages) = Len(PageLines)
    /\ \A k \in 1..Len(opt_pages) :
           LET f == SplitFields(Strip(PageLines[k])) IN
           /\ opt_pages[k].bates_number = f[1]
           /\ opt_pages[k].volume_label = f[2]
           /\ opt_pages[k].document_break = (f[4] = <<"Y">>)
    /\ errors = Len(SelectSeq(opt_file, IsErrorLine))
    /\ Len(opt_pages) + errors = Len(SelectSeq(opt_file, NonBlank))

\* C8: for every image-index file the parse runs to the end of the file (no
\* line aborts it) and returns exactly the non-blank lines with at least four
\* fields, in file order, the error count being the number of non-blank lines
\* with fewer than four fields; blank lines count as neither.
C8_MalformedLineResilience ==
    /\ pc # "crashed"
    /\ OptReturned => PagesAndErrorsExact

\* Position i of the stripped text t lies outside quotes when an even number
\* of quote characters precede it.
OutsideQuotes(t, i) == Cardinality({j \in 1..(i - 1) : t[j] = DQUOTE}) % 2 = 0

UnquotedCommas(t) == {i \in 1..Len(t) : t[i] = COMMA /\ OutsideQuotes(t, i)}

\* The position of the k-th unquoted comma; 0 before the first field and
\* Len(t) + 1 after the last.
CutAt(t, k) ==
    IF k = 0 THEN 0
    ELSE IF k > Cardinality(UnquotedCommas(t)) THEN Len(t) + 1
    ELSE CHOOSE p \in UnquotedCommas(t) :
             Cardinality({q \in UnquotedCommas(t) : q < p}) = k - 1

NotQuote(c) == c # DQUOTE

\* The text between the (k-1)-th and the k-th unquoted comma, quotes removed.
ExpectedField(t, k) == SelectSeq(SubSeq(t, CutAt(t, k - 1) + 1, CutAt(t, k) - 1), NotQuote)

\* C9: the fields of a non-blank line are cut only at the commas outside
\* double quotes: there are 1 + (number of unquoted commas) fields, each the
\* text between two such commas with its commas kept and its quote characters
\* removed.
C9_QuoteAwareSplit ==
    (line_no >= 1 /\ NonBlank(opt_file[line_no])) =>
        LET t == Strip(opt_file[line_no]) IN
        /\ Len(parts) = 1 + Cardinality(UnquotedCommas(t))
        /\ \A k \in 1..Len(parts) :
               /\ parts[k] = ExpectedField(t, k)
               /\ \A i \in 1..Len(parts[k]) : parts[k][i] # DQUOTE

\* A quoted field that holds a comma, next to an unquoted comma.
C9_Witness ==
    /\ line_no = 1
    /\ Len(parts) = 2
    /\ \E i \in 1..Len(parts[2]) : parts[2][i] = COMMA
    /\ Cardinality({i \in 1..Len(opt_file[1]) : opt_file[1][i] = DQUOTE}) = 2

-----------------------------------------------------------------------------
(* Properties of the metadata parser *)

\* parse_dat_file has returned.
DatParsed == pc \in {"cross_validate", "done"}

\* The non-blank lines after the header.
DataLines == IF dat_file = <<>> THEN <<>> ELSE SelectSeq(Tail(dat_file), NonBlank)

ColumnSet == {columns[i] : i \in 1..Len(columns)}

\* The i-th parsed value of a line, the empty string when it has none.
ValueAt(line, i) ==
    LET v == DatValues(Strip(line)) IN IF i <= Len(v) THEN v[i] ELSE <<>>

\* The last position at which the header declares the name of column i.
LastDeclared(i) ==
    CHOOSE j \in 1..Len(columns) :
        /\ columns[j] = columns[i]
        /\ \A m \in (j + 1)..Len(columns) : columns[m] # columns[i]

\* C10 as stated: every non-blank line after the header gives exactly one
\* record, in file order, whose keys are the declared columns, the value of the
\* i-th column being the i-th parsed value of the line, or the empty string
\* when the line has none.
C10_PaddingByPosition ==
    DatParsed =>
        /\ Len(dat_records) = Len(DataLines)
        /\ \A k \in 1..Len(dat_records) :
               /\ DOMAIN dat_records[k] = ColumnSet
               /\ \A i \in 1..Len(columns) :
                      dat_records[k][columns[i]] = ValueAt(DataLines[k], i)

\* C10 amended: as stated, except that a column name the header declares more
\* than once holds the value of the last position that declares it (the i-th
\* parsed value for a name declared once, at position i).
C10_PaddingByLastPosition ==
    DatParsed =>
        /\ Len(dat_records) = Len(DataLines)
        /\ \A k \in 1..Len(dat_records) :
               /\ DOMAIN dat_records[k] = ColumnSet
               /\ \A i \in 1..Len(columns) :
                      dat_records[k][columns[i]] = ValueAt(DataLines[k], LastDeclared(i))

\* A truncated line between two full ones: its End Bates is padded.
C10_Witness ==
    /\ DatParsed
    /\ columns = <<BEGIN_BATES, END_BATES>>
    /\ Len(dat_records) = 2
    /\ dat_records[1][BEGIN_BATES] = BatesA
    /\ dat_records[1][END_BATES] = <<>>
    /\ dat_records[2][END_BATES] = BatesB

-----------------------------------------------------------------------------
(* main's results and the remote side *)

\* The DatasetResult process_dataset returns.
DatasetResult(ds_num, pages, docs, cols, recs, match) ==
    [dataset_number |-> ds_num,
     opt_pages |-> Len(pages),
     opt_documents |-> Len(docs),
     dat_records |-> Len(recs),
     dat_columns |-> cols,
     documents |-> docs,
     dat_records_list |-> recs,
     dat_opt_match |-> match,
     multi_page_docs |-> Cardinality({i \in 1..Len(docs) : docs[i].page_count > 1}),
     max_page_count |-> MaxPageCount(docs),
     efta_start |-> IF docs # <<>> THEN docs[1].efta_start ELSE <<"?">>,
     efta_end |-> IF docs # <<>> THEN Last(docs).efta_end ELSE <<"?">>]

\* The result of a dataset whose load files hold these pages and no metadata.
ResultOfPages(ds_num, pages) ==
    LET docs == build_documents_from_opt(pages, VolumeBase)
    IN DatasetResult(ds_num, pages, docs, <<>>, <<>>, cross_validate(docs, <<>>))

PageA == OPTPage(BatesA, <<"V">>, <<"I", SLASH, "p", DOT, "T">>, TRUE, 1)

\* Dataset numbers of a run.
MaxDatasets == 2
DatasetNumbers == 1..MaxDatasets

\* The `results` a run can reach its remote phases with: the datasets that
\* gave a result, in ascending order of number.
RECURSIVE ResultsOf(_, _, _)
ResultsOf(numbers, pagesOf, from) ==
    IF from > MaxDatasets THEN <<>>
    ELSE (IF from \in numbers THEN <<ResultOfPages(from, pagesOf[from])>> ELSE <<>>)
         \o ResultsOf(numbers, pagesOf, from + 1)

\* The pages of a dataset's image-index file: none, or one page.
PageSamples == {<<>>, <<PageA>>}

ResultLists ==
    {ResultsOf(numbers, pagesOf, 1) :
        numbers \in SUBSET DatasetNumbers, pagesOf \in [DatasetNumbers -> PageSamples]}

-----------------------------------------------------------------------------
(* update_database *)

BATCH_SIZE == 1000

\* `for attempt in range(3)`
MAX_ATTEMPTS == 3

\* `while consecutive_failures < 5`
MAX_FAILURES == 5

\* Row counts a mock of the RPC answers with.
MockRows == {0, 1, BATCH_SIZE}

\* Documents a dataset can have un-validated in the database.
RemainingSamples == {0, 1, BATCH_SIZE + 1}

\* A slip: the UUID of a dataset used without the test for None.
HasIdUnchecked(r) == TRUE

\* ds_id = ds_map.get(r.dataset_number) is not None
HasId(r) == r.dataset_number \in ds_map

\* An HTTP request: what it asks for, the dataset it is about (0: none), and
\* its timeout in seconds (0: none given).
Request(kind, ds, timeout) == [kind |-> kind, ds |-> ds, timeout |-> timeout]

\* An answer of the RPC: its status and the row count in its body.
Answer(status, rows_) == [NoResp EXCEPT !.status = status, !.rows = rows_]

\* The request raised instead of returning.
Raise(exc) == [NoResp EXCEPT !.exc = exc]

\* What one POST to rpc/mark_dat_validated can come back with.  The "rpc"
\* endpoint stamps min(batch size, remaining) documents on a call it answers
\* with HTTP 200 and returns that number.
RpcResponses(ds) ==
    {Answer(200, n) : n \in IF endpoint = "mock" THEN MockRows
                            ELSE {Min(BATCH_SIZE, remaining[ds])}}
    \cup {Answer(404, 0), Answer(500, 0), Answer(503, 0), Answer(400, 0)}
    \cup {Raise("Timeout"), Raise("ConnectionError")}

IsOk(resp) == resp.exc = "none" /\ resp.status = 200

\* A slip: the batch count replaces the running total.
NextTotalLast(total, count) == count

\* ds_total += count
NextTotal(total, count) == total + count

\* A slip: the loop left on a short batch.
LoopEndsOnShort(count) == count < BATCH_SIZE

\* `if count == 0: break`
LoopEnds(count) == count = 0

\* A slip: a timed-out call ends the batch attempt.
RetriesNoTimeout(resp, att) == resp.exc # "Timeout" /\ att + 1 < MAX_ATTEMPTS

\* The for loop goes on to another call after this answer to call number att.
Retries(resp, att) == att + 1 < MAX_ATTEMPTS

\* How a dataset loop was left, and the ds_total it was left with.
Outcome(ds, exit, total) ==
    [run |-> run_no, dataset_number |-> ds, exit |-> exit, ds_total |-> total]

\* Mutation calls one run may issue, and runs of the script.
MaxCalls == 17
MaxRuns == 3

\* process_dataset is not running.
ProcIdle ==
    /\ pc = "idle"
    /\ opt_file = <<>>
    /\ dat_file = <<>>
    /\ line_no = 0
    /\ parts = <<>>
    /\ opt_pages = <<>>
    /\ errors = 0
    /\ documents = <<>>
    /\ columns = <<>>
    /\ dat_records = <<>>
    /\ dat_opt_match = FALSE
    /\ summary = NoSummary

\* The results of a run on dataset 1 alone (--dataset 1).
OneResult == {ResultsOf({1}, [n \in DatasetNumbers |-> <<PageA>>], 1)}

\* main has its results and enters the function at `at`.
InitMainWith(at, update, kind, samples, lists) ==
    /\ ProcIdle
    /\ DownloadIdle
    /\ HoardIdle
    /\ mpc = at
    /\ args \in {Args(0, ~u, u, FALSE) : u \in update}
    /\ results \in lists
    /\ remote_datasets \in SUBSET DatasetNumbers
    /\ endpoint = kind
    /\ remaining \in {[n \in DatasetNumbers |-> IF n \in ds THEN c ELSE 0] :
                         c \in samples, ds \in {{r[i].dataset_number : i \in 1..Len(r)} : r \in lists}}
    /\ stamped = [n \in DatasetNumbers |-> 0]
    /\ unvalidated = remaining
    /\ ds_map = {}
    /\ idx = 0
    /\ halt = "none"
    /\ ds_total = 0
    /\ batch_num = 0
    /\ consecutive_failures = 0
    /\ attempt = 0
    /\ success = FALSE
    /\ total_updated = 0
    /\ calls = 0
    /\ fails = 0
    /\ positives = 0
    /\ rows = 0
    /\ last_resp = NoResp
    /\ outcomes = <<>>
    /\ run_no = 1
    /\ run_calls = 0
    /\ requested = {}
    /\ map_fetches = 0
    /\ VerifyIdle

\* update_database is entered with main's results.
InitUpdateWith(kind, samples, lists) ==
    InitMainWith("update_map", {TRUE}, kind, samples, lists)

loop_vars == <<ds_total, batch_num, consecutive_failures, attempt, success>>
hist_vars == <<calls, fails, positives, rows, last_resp>>

\* The GET of the datasets table and `ds_map`, `total_updated = 0`.
UpdateFetchMap ==
    /\ mpc = "update_map"
    /\ requested' = requested \cup {Request("datasets", 0, 0)}
    /\ map_fetches' = map_fetches + 1
    /\ \E answered \in BOOLEAN :
          IF answered
          THEN /\ ds_map' = remote_datasets
               /\ total_updated' = 0
               /\ idx' = 1
               /\ mpc' = "update_for"
               /\ halt' = halt
          ELSE /\ mpc' = "halted"
               /\ halt' = "exception"
               /\ UNCHANGED <<ds_map, total_updated, idx>>
    /\ UNCHANGED <<proc_vars, results, run_no, args, hoard_vars, download_vars, remote_vars,
                   verify_vars, spot_vars, loop_vars, hist_vars, outcomes, run_calls>>

\* The head of `for r in results`: the end of the function, a dataset
\* without UUID, or the first pass of the while loop up to its first call.
UpdateNextDataset ==
    /\ mpc = "update_for"
    /\ IF idx > Len(results)
       THEN /\ mpc' = "finished"
            /\ UNCHANGED <<idx, loop_vars, hist_vars, outcomes>>
       ELSE IF ~HasId(results[idx])
       THEN /\ idx' = idx + 1
            /\ outcomes' = Append(outcomes,
                  Outcome(results[idx].dataset_number, "skipped", 0))
            /\ UNCHANGED <<mpc, loop_vars, hist_vars>>
       ELSE /\ ds_total' = 0
            /\ batch_num' = 1
            /\ consecutive_failures' = 0
            /\ attempt' = 0
            /\ success' = FALSE
            /\ calls' = 0
            /\ fails' = 0
            /\ positives' = 0
            /\ rows' = 0
            /\ last_resp' = NoResp
            /\ mpc' = "call"
            /\ UNCHANGED <<idx, outcomes>>
    /\ UNCHANGED <<proc_vars, results, ds_map, halt, run_no, args, hoard_vars, download_vars, io_vars,
                   remote_vars, verify_vars, spot_vars, total_updated, run_calls>>

\* The while loop is left: total_updated += ds_total, next r.
LeaveLoop(ds, exit) ==
    /\ total_updated' = total_updated + ds_total'
    /\ idx' = idx + 1
    /\ mpc' = "update_for"
    /\ halt' = halt
    /\ outcomes' = Append(outcomes, Outcome(ds, exit, ds_total'))

\* update_database is left from inside its loops.
LeaveFunction(ds, to, why, exit) ==
    /\ UNCHANGED <<loop_vars, total_updated, idx>>
    /\ mpc' = to
    /\ halt' = why
    /\ outcomes' = Append(outcomes, Outcome(ds, exit, ds_total'))

\* One POST and everything up to the next POST.
Respond(resp) ==
    LET ds == results[idx].dataset_number IN
    /\ calls' = calls + 1
    /\ run_calls' = run_calls + 1
    /\ last_resp' = resp
    /\ fails' = IF IsOk(resp) THEN fails ELSE fails + 1
    /\ positives' = IF IsOk(resp) /\ resp.rows > 0 THEN positives + 1 ELSE positives
    /\ rows' = IF IsOk(resp) THEN rows + resp.rows ELSE rows
    /\ remaining' = IF IsOk(resp) /\ endpoint = "rpc"
                    THEN [remaining EXCEPT ![ds] = @ - resp.rows] ELSE remaining
    /\ stamped' = IF IsOk(resp) /\ endpoint = "rpc"
                  THEN [stamped EXCEPT ![ds] = @ + resp.rows] ELSE stamped
    /\ CASE resp.exc = "ConnectionError" ->
              LeaveFunction(ds, "halted", "exception", "exception")
         [] resp.exc = "none" /\ resp.status = 404 ->
              LeaveFunction(ds, "finished", "rpc_not_found", "returned")
         [] IsOk(resp) /\ LoopEnds(resp.rows) ->
              /\ success' = TRUE
              /\ UNCHANGED <<ds_total, batch_num, consecutive_failures, attempt>>
              /\ LeaveLoop(ds, "done")
         [] IsOk(resp) /\ ~LoopEnds(resp.rows) ->
              /\ consecutive_failures' = 0
              /\ ds_total' = NextTotal(ds_total, resp.rows)
              /\ batch_num' = batch_num + 1
              /\ attempt' = 0
              /\ success' = FALSE
              /\ UNCHANGED <<mpc, halt, idx, total_updated, outcomes>>
         [] OTHER ->
              IF Retries(resp, attempt)
              THEN /\ attempt' = attempt + 1
                   /\ UNCHANGED <<ds_total, batch_num, consecutive_failures, success,
                                  mpc, halt, idx, total_updated, outcomes>>
              ELSE /\ consecutive_failures' = consecutive_failures + 1
                   /\ UNCHANGED <<ds_total, success>>
                   /\ IF consecutive_failures' < MAX_FAILURES
                      THEN /\ batch_num' = batch_num + 1
                           /\ attempt' = 0
                           /\ UNCHANGED <<mpc, halt, idx, total_updated, outcomes>>
                      ELSE /\ UNCHANGED <<batch_num, attempt>>
                           /\ LeaveLoop(ds, "aborted")

UpdateCall ==
    /\ mpc = "call"
    /\ run_calls < MaxCalls
    /\ \E resp \in RpcResponses(results[idx].dataset_number) : Respond(resp)
    /\ requested' = requested \cup {Request("rpc", results[idx].dataset_number, 30)}
    /\ UNCHANGED <<proc_vars, results, ds_map, run_no, args, hoard_vars, download_vars, map_fetches,
                   endpoint, unvalidated, remote_datasets, verify_vars, spot_vars>>

\* The script is run again: same cache, hence same results; same database.
StartRun ==
    /\ mpc \in {"finished", "halted"}
    /\ run_no < MaxRuns
    /\ run_no' = run_no + 1
    /\ mpc' = "update_map"
    /\ halt' = "none"
    /\ ds_map' = {}
    /\ idx' = 0
    /\ ds_total' = 0
    /\ batch_num' = 0
    /\ consecutive_failures' = 0
    /\ attempt' = 0
    /\ success' = FALSE
    /\ total_updated' = 0
    /\ calls' = 0
    /\ fails' = 0
    /\ positives' = 0
    /\ rows' = 0
    /\ last_resp' = NoResp
    /\ run_calls' = 0
    /\ requested' = {}
    /\ map_fetches' = 0
    /\ UNCHANGED <<proc_vars, results, args, hoard_vars, download_vars, remote_vars, verify_vars,
                   spot_vars, outcomes>>

NextUpdate == UpdateFetchMap \/ UpdateNextDataset \/ UpdateCall

NextResume == UpdateFetchMap \/ UpdateNextDataset \/ UpdateCall \/ StartRun

\* update_database against a mock of the RPC that answers anything.
InitUpdate == InitUpdateWith("mock", {0}, OneResult)
SpecUpdate == InitUpdate /\ [][NextUpdate]_vars

\* Runs of update mode, one after the other, against a database that stamps.
InitResume == InitUpdateWith("rpc", RemainingSamples, OneResult)
SpecResume == InitResume /\ [][NextResume]_vars

-----------------------------------------------------------------------------
(* Properties of update_database's batch loop *)

\* The while loop of the dataset last started has been left; calls, fails,
\* positives, rows and last_resp still describe it.
LoopLeft == mpc # "call" /\ calls > 0

\* How that loop was left.
LeftIndex ==
    LET I == {i \in 1..Len(outcomes) : outcomes[i].exit # "skipped"}
    IN CHOOSE i \in I : \A j \in I : j <= i

LeftExit == outcomes[LeftIndex].exit

\* C11: as long as the endpoint has answered every call of a dataset loop with
\* HTTP 200 and a positive row count, the loop is still calling and ds_total is
\* the sum of the counts returned; once it has answered k such calls and then
\* one with 0 rows, the loop has been left after exactly k + 1 calls, by
\* completion and not by the failure threshold, with ds_total the sum of the k
\* positive counts.
C11_Convergence ==
    /\ (mpc = "call" /\ fails = 0) =>
          /\ calls = positives
          /\ ds_total = rows
          /\ consecutive_failures = 0
    /\ (LoopLeft /\ fails = 0) =>
          /\ last_resp = Answer(200, 0)
          /\ LeftExit = "done"
          /\ calls = positives + 1
          /\ ds_total = rows
          /\ consecutive_failures < MAX_FAILURES

\* Two positive counts that differ, then 0: three calls.
C11_Witness ==
    /\ LoopLeft
    /\ fails = 0
    /\ positives = 2
    /\ calls = 3
    /\ rows = BATCH_SIZE + 1
    /\ ds_total = BATCH_SIZE + 1

\* C12 as stated: when the endpoint has failed every call of a dataset loop,
\* the loop issues at most MAX_ATTEMPTS * MAX_FAILURES calls and is then left
\* as partial, with consecutive_failures = MAX_FAILURES and no row updated.
C12_CircuitBreaker ==
    /\ (mpc = "call" /\ fails = calls) => calls < MAX_ATTEMPTS * MAX_FAILURES
    /\ (LoopLeft /\ fails = calls) =>
          /\ calls <= MAX_ATTEMPTS * MAX_FAILURES
          /\ LeftExit = "aborted"
          /\ consecutive_failures = MAX_FAILURES
          /\ ds_total = 0

\* What does hold of C12: at most MAX_ATTEMPTS * MAX_FAILURES calls, no row
\* updated; the loop is left as partial unless update_database itself is left.
BreakerBound ==
    /\ (mpc = "call" /\ fails = calls) => calls < MAX_ATTEMPTS * MAX_FAILURES
    /\ (LoopLeft /\ fails = calls) =>
          /\ calls <= MAX_ATTEMPTS * MAX_FAILURES
          /\ ds_total = 0
          /\ LeftExit \in {"aborted", "returned", "exception"}
          /\ LeftExit = "aborted" =>
                /\ calls = MAX_ATTEMPTS * MAX_FAILURES
                /\ consecutive_failures = MAX_FAILURES

\* C14 as stated: a dataset loop is left only as DONE, on an answered call
\* that returned 0 rows, or as ABORTED, with the counter at MAX_FAILURES; the
\* counter is always within 0..MAX_FAILURES.
C14_LoopStateMachine ==
    /\ consecutive_failures \in 0..MAX_FAILURES
    /\ LoopLeft =>
          \/ LeftExit = "done" /\ last_resp = Answer(200, 0)
          \/ LeftExit = "aborted" /\ consecutive_failures = MAX_FAILURES

\* What does hold of C14's counter: it goes up by one exactly when the third
\* call of a batch attempt fails, to 0 on every answered call with rows, and
\* is otherwise left alone; the loop is left as ABORTED exactly when it
\* reaches MAX_FAILURES.
CounterSteps ==
    [][calls' = calls + 1 =>
         /\ consecutive_failures' \in {consecutive_failures, consecutive_failures + 1, 0}
         /\ (consecutive_failures' = consecutive_failures + 1) =
               (/\ ~IsOk(last_resp')
                /\ last_resp' \notin {Answer(404, 0), Raise("ConnectionError")}
                /\ attempt = MAX_ATTEMPTS - 1)
         /\ (IsOk(last_resp') /\ last_resp'.rows > 0) => consecutive_failures' = 0
         /\ (mpc' # "call" /\ consecutive_failures' = MAX_FAILURES)
               = (Len(outcomes') > Len(outcomes) /\ Last(outcomes').exit = "aborted")
    ]_vars

\* A 500/503 answer or a timeout.
Transient(resp) ==
    \/ resp.exc = "none" /\ resp.status \in {500, 503}
    \/ resp.exc = "Timeout"

-----------------------------------------------------------------------------
(* Properties of update mode over several runs *)

\* Sum of the ds_total the dataset loops for ds were left with.
RECURSIVE LeftTotals(_, _)
LeftTotals(ds, i) ==
    IF i > Len(outcomes) THEN 0
    ELSE (IF outcomes[i].dataset_number = ds THEN outcomes[i].ds_total ELSE 0)
         + LeftTotals(ds, i + 1)

\* The same, with the ds_total of the loop that is running.
TotalsOf(ds) ==
    LeftTotals(ds, 1)
    + (IF mpc = "call" /\ results[idx].dataset_number = ds THEN ds_total ELSE 0)

\* The dataset of the loop last started in this run ended DONE in an earlier run.
DoneBefore ==
    \E i \in 1..Len(outcomes) :
        /\ outcomes[i].exit = "done"
        /\ outcomes[i].run < run_no
        /\ outcomes[i].dataset_number =
              (IF mpc = "call" THEN results[idx].dataset_number
               ELSE outcomes[LeftIndex].dataset_number)

\* The accounting of C16: the totals of all runs are the documents stamped,
\* none stamped twice, and all of them once a loop has ended DONE.
TotalsAccount ==
    \A ds \in DatasetNumbers :
        /\ stamped[ds] + remaining[ds] = unvalidated[ds]
        /\ TotalsOf(ds) = stamped[ds]
        /\ (\E i \in 1..Len(outcomes) :
               outcomes[i].dataset_number = ds /\ outcomes[i].exit = "done")
           => remaining[ds] = 0 /\ TotalsOf(ds) = unvalidated[ds]

\* C16 as stated: with an endpoint that stamps min(batch size, remaining)
\* documents on each answered call, (a) a run after the dataset ended DONE
\* issues exactly one call for it, which returns 0 and changes nothing, and
\* (b) the totals of all runs are the documents stamped, each once, all of
\* them once a loop has ended DONE.
C16_Idempotent ==
    /\ TotalsAccount
    /\ (LoopLeft /\ DoneBefore) =>
          /\ calls = 1
          /\ last_resp = Answer(200, 0)
          /\ rows = 0

\* C16, amended: (a) a run after the dataset ended DONE changes nothing and
\* its loop is left at the first call answered HTTP 200, which returns 0:
\* exactly one call when no call of it fails; (b) as stated.
C16_Resumable ==
    /\ TotalsAccount
    /\ ((mpc = "call" \/ LoopLeft) /\ DoneBefore) =>
          /\ rows = 0
          /\ ds_total = 0
          /\ positives = 0
          /\ mpc = "call" => fails = calls
          /\ (LoopLeft /\ IsOk(last_resp)) =>
                /\ last_resp = Answer(200, 0)
                /\ LeftExit = "done"
                /\ calls = fails + 1
          /\ (LoopLeft /\ fails = 0) => calls = 1

\* A first run left as partial after one batch, a second that stamps the
\* rest and ends DONE, a third that finds nothing to do in one call.
C16_Witness ==
    /\ run_no = 3
    /\ LoopLeft
    /\ Len(outcomes) = 3
    /\ outcomes[1].exit = "aborted" /\ outcomes[1].ds_total = BATCH_SIZE
    /\ outcomes[2].exit = "done" /\ outcomes[2].ds_total = 1
    /\ outcomes[3].exit = "done" /\ outcomes[3].ds_total = 0
    /\ calls = 1

-----------------------------------------------------------------------------
(* verify_database *)

\* Document counts the database may report for a dataset.
MaxDbCount == 2

DigitChar(n) == <<"0", "1", "2", "3", "4", "5", "6", "7", "8", "9">>[n + 1]

\* The Content-Range of a limit=1 answer with an exact count of n (n < 10).
ContentRange(n) ==
    IF n = 0 THEN <<"*", SLASH, "0">>
    ELSE <<"0", "-", "0", SLASH, DigitChar(n)>>

\* A Content-Range that carries no count.
RangeNoCount == <<"0", "-", "0", SLASH, "*">>

\* An answer to the count request: its status, and its Content-Range if any.
CountAnswer(status, has, cr) ==
    [NoResp EXCEPT !.status = status, !.has_range = has, !.content_range = cr]

\* What the count request can come back with.
CountResponses ==
    {CountAnswer(200, TRUE, ContentRange(n)) : n \in 0..MaxDbCount}
    \cup {CountAnswer(200, TRUE, RangeNoCount),
          CountAnswer(200, FALSE, <<>>),
          CountAnswer(500, FALSE, <<>>),
          Raise("ConnectionError")}

\* The count request failed: transport error, error status, or no count.
CountFailed(resp) ==
    \/ resp.exc # "none"
    \/ resp.status >= 400
    \/ ~resp.has_range
    \/ ~IntAccepts(Last(Split(resp.content_range, <<SLASH>>)))

\* resp.headers.get("Content-Range", "*/0")
RangeOf(resp) == IF resp.has_range THEN resp.content_range ELSE <<"*", SLASH, "0">>

\* cr.split("/")[-1], the argument of int()
CountText(resp) == Last(Split(RangeOf(resp), <<SLASH>>))

\* status of line 393
Status(db_count, opt_documents) ==
    IF db_count = opt_documents THEN "OK" ELSE "MISMATCH"

\* A line verify_database prints for a dataset.
ReportLine(ds, db_count, opt_documents, status) ==
    [dataset_number |-> ds, db |-> db_count, opt |-> opt_documents, status |-> status]

NOT_IN_TABLE == "Not in datasets table!"

\* The GET of the datasets table, `ds_map` and the zeroed locals.
VerifyFetchMap ==
    /\ mpc = "verify_map"
    /\ requested' = requested \cup {Request("datasets", 0, 0)}
    /\ map_fetches' = map_fetches + 1
    /\ \E answered \in BOOLEAN :
          IF answered
          THEN /\ ds_map' = remote_datasets
               /\ total_db' = 0
               /\ total_opt' = 0
               /\ mismatches' = <<>>
               /\ idx' = 1
               /\ mpc' = "verify_for"
               /\ halt' = halt
          ELSE /\ mpc' = "halted"
               /\ halt' = "exception"
               /\ UNCHANGED <<ds_map, total_db, total_opt, mismatches, idx>>
    /\ UNCHANGED <<proc_vars, results, run_no, args, hoard_vars, download_vars, remote_vars, report,
                   spot_vars, update_vars>>

\* The head of `for r in results`: the totals and the verdict after the last
\* dataset, the line for a dataset without UUID, or the way to the request.
VerifyNextDataset ==
    /\ mpc = "verify_for"
    /\ IF idx > Len(results)
       THEN /\ mpc' = "verify_end"
            /\ UNCHANGED <<idx, report>>
       ELSE IF ~HasId(results[idx])
       THEN /\ report' = Append(report,
                  ReportLine(results[idx].dataset_number, 0, 0, NOT_IN_TABLE))
            /\ idx' = idx + 1
            /\ mpc' = mpc
       ELSE /\ mpc' = "count"
            /\ UNCHANGED <<idx, report>>
    /\ UNCHANGED <<proc_vars, results, ds_map, halt, run_no, args, hoard_vars, download_vars, io_vars,
                   remote_vars, total_db, total_opt, mismatches, spot_vars,
                   update_vars>>

\* The count request and the rest of the loop body.
Counted(resp) ==
    LET r == results[idx] IN
    /\ last_resp' = resp
    /\ IF resp.exc # "none" \/ ~IntAccepts(CountText(resp))
       THEN /\ mpc' = "halted"
            /\ halt' = "exception"
            /\ UNCHANGED <<verify_vars, idx>>
       ELSE LET db_count == IntOf(CountText(resp)) IN
            /\ total_db' = total_db + db_count
            /\ total_opt' = total_opt + r.opt_documents
            /\ mismatches' = IF db_count # r.opt_documents
                             THEN Append(mismatches,
                                         <<r.dataset_number, db_count, r.opt_documents>>)
                             ELSE mismatches
            /\ report' = Append(report,
                  ReportLine(r.dataset_number, db_count, r.opt_documents,
                             Status(db_count, r.opt_documents)))
            /\ idx' = idx + 1
            /\ mpc' = "verify_for"
            /\ halt' = halt

VerifyCount ==
    /\ mpc = "count"
    /\ requested' = requested \cup {Request("count", results[idx].dataset_number, 0)}
    /\ \E resp \in CountResponses : Counted(resp)
    /\ UNCHANGED <<proc_vars, results, ds_map, run_no, args, hoard_vars, download_vars, map_fetches,
                   remote_vars, spot_vars, loop_vars, total_updated, calls, fails,
                   positives, rows, outcomes, run_calls>>

\* verify_database returns to main, which calls verify_page_counts.
VerifyReturn ==
    /\ mpc = "verify_end"
    /\ mpc' = "spot_map"
    /\ total_db' = 0
    /\ total_opt' = 0
    /\ mismatches' = <<>>
    /\ report' = <<>>
    /\ last_resp' = NoResp
    /\ UNCHANGED <<proc_vars, results, ds_map, idx, halt, run_no, args, hoard_vars, download_vars,
                   io_vars, remote_vars, spot_vars, loop_vars, total_updated,
                   calls, fails, positives, rows, outcomes, run_calls>>

-----------------------------------------------------------------------------
(* verify_page_counts *)

\* Rows one spot-check answer may hold.
MaxRows == 1

FileA == ResultOfPages(1, <<PageA>>).documents[1].filename
FileZ == <<"z", DOT, "T">>

Row(fname, db_pc) == [filename |-> fname, page_count |-> db_pc]

RowSamples == {Row(f, c) : f \in {FileA, FileZ}, c \in {1, 2}}

\* An answer to a spot-check request: its status and the rows of its body.
RowsAnswer(status, body) == [NoResp EXCEPT !.status = status, !.body = body]

\* What a spot-check request can come back with.  The body of an error
\* answer is a JSON object, whose keys `for row in resp.json()` iterates.
SpotResponses ==
    {RowsAnswer(200, b) : b \in SeqsUpTo(RowSamples, MaxRows)}
    \cup {RowsAnswer(500, <<>>), Raise("ConnectionError")}

\* expected.get(fname): the page count of the last document of that name.
RECURSIVE Expected(_, _, _)
Expected(docs, fname, i) ==
    IF i = 0 THEN [found |-> FALSE, page_count |-> 0]
    ELSE IF docs[i].filename = fname
         THEN [found |-> TRUE, page_count |-> docs[i].page_count]
         ELSE Expected(docs, fname, i - 1)

\* The rows of one answer that count as issues.
RowIssues(docs, body) ==
    Cardinality({i \in 1..Len(body) :
        LET e == Expected(docs, body[i].filename, Len(docs))
        IN e.found /\ body[i].page_count # e.page_count})

\* The GET of the datasets table, `ds_map` and the zeroed counters.
SpotFetchMap ==
    /\ mpc = "spot_map"
    /\ requested' = requested \cup {Request("datasets", 0, 0)}
    /\ map_fetches' = map_fetches + 1
    /\ \E answered \in BOOLEAN :
          IF answered
          THEN /\ ds_map' = remote_datasets
               /\ issues' = 0
               /\ checked' = 0
               /\ idx' = 1
               /\ mpc' = "spot_for"
               /\ halt' = halt
          ELSE /\ mpc' = "halted"
               /\ halt' = "exception"
               /\ UNCHANGED <<ds_map, issues, checked, idx>>
    /\ UNCHANGED <<proc_vars, results, run_no, args, hoard_vars, download_vars, remote_vars,
                   verify_vars, order_i, update_vars>>

\* The head of `for r in results`: the verdict after the last dataset, a
\* dataset without UUID passed over, or `expected` and the way to the requests.
SpotNextDataset ==
    /\ mpc = "spot_for"
    /\ IF idx > Len(results)
       THEN /\ mpc' = "spot_end"
            /\ UNCHANGED <<idx, order_i>>
       ELSE IF ~HasId(results[idx])
       THEN /\ idx' = idx + 1
            /\ UNCHANGED <<mpc, order_i>>
       ELSE /\ mpc' = "spot"
            /\ order_i' = 0
            /\ idx' = idx
    /\ UNCHANGED <<proc_vars, results, ds_map, halt, run_no, args, hoard_vars, download_vars, io_vars,
                   remote_vars, verify_vars, issues, checked, update_vars>>

\* One of the two requests of a dataset and the loop over its rows.
Spotted(resp) ==
    LET r == results[idx] IN
    /\ last_resp' = resp
    /\ IF resp.exc # "none" \/ resp.status # 200
       THEN /\ mpc' = "halted"
            /\ halt' = "exception"
            /\ UNCHANGED <<spot_vars, idx>>
       ELSE /\ checked' = checked + Len(resp.body)
            /\ issues' = issues + RowIssues(r.documents, resp.body)
            /\ order_i' = order_i + 1
            /\ idx' = IF order_i' = 2 THEN idx + 1 ELSE idx
            /\ mpc' = IF order_i' = 2 THEN "spot_for" ELSE "spot"
            /\ halt' = halt

SpotRequest ==
    /\ mpc = "spot"
    /\ requested' = requested \cup {Request("spot", results[idx].dataset_number, 0)}
    /\ \E resp \in SpotResponses : Spotted(resp)
    /\ UNCHANGED <<proc_vars, results, ds_map, run_no, args, hoard_vars, download_vars, map_fetches,
                   remote_vars, verify_vars, loop_vars, total_updated, calls, fails,
                   positives, rows, outcomes, run_calls>>

\* verify_page_counts returns to main, which goes on to update_database
\* under --update and to its last line otherwise.
SpotReturn ==
    /\ mpc = "spot_end"
    /\ mpc' = IF args.update THEN "update_map" ELSE "finished"
    /\ issues' = 0
    /\ checked' = 0
    /\ order_i' = 0
    /\ last_resp' = NoResp
    /\ UNCHANGED <<proc_vars, results, ds_map, idx, halt, run_no, args, hoard_vars, download_vars,
                   io_vars, remote_vars, verify_vars, loop_vars, total_updated,
                   calls, fails, positives, rows, outcomes, run_calls>>

-----------------------------------------------------------------------------
(* The remote phases of a run *)

NextVerify ==
    \/ VerifyFetchMap \/ VerifyNextDataset \/ VerifyCount \/ VerifyReturn
    \/ SpotFetchMap \/ SpotNextDataset \/ SpotRequest \/ SpotReturn

NextRemote ==
    \/ VerifyFetchMap \/ VerifyNextDataset \/ VerifyCount \/ VerifyReturn
    \/ SpotFetchMap \/ SpotNextDataset \/ SpotRequest \/ SpotReturn
    \/ UpdateFetchMap \/ UpdateNextDataset \/ UpdateCall

\* A --verify run from the call of verify_database on.
InitVerify == InitMainWith("verify_map", {FALSE}, "rpc", {0}, ResultLists)
SpecVerify == InitVerify /\ [][NextVerify]_vars

\* An --update run from the call of verify_database on.
InitRemote == InitMainWith("verify_map", {TRUE}, "rpc", {0, 1}, ResultLists)
SpecRemote == InitRemote /\ [][NextRemote]_vars

-----------------------------------------------------------------------------
(* Properties of the remote phases *)

\* The run has left its last loop.
RunEnded == mpc \in {"finished", "halted"}

RpcCalled(ds) == Request("rpc", ds, 30) \in requested

\* The results whose dataset has a row in the remote datasets table.
WithId == {i \in 1..Len(results) : results[i].dataset_number \in remote_datasets}

\* C13 as stated: however the endpoint failed for a dataset, the run is not
\* ended by it, and the update loop has been started for every dataset of the
\* results that has a remote identifier by the time the run ends.
C13_FailureIsolation ==
    (RunEnded /\ \E ds \in DatasetNumbers : RpcCalled(ds)) =>
        /\ mpc = "finished"
        /\ halt = "none"
        /\ \A i \in WithId : RpcCalled(results[i].dataset_number)

\* What does hold of C13: when update_database runs to its last line, the
\* loop was started for every dataset with a remote identifier, the datasets
\* after an ABORTED one included.
FailureIsolationUnlessLeft ==
    (RunEnded /\ halt = "none" /\ \E ds \in DatasetNumbers : RpcCalled(ds)) =>
        \A i \in WithId : RpcCalled(results[i].dataset_number)

\* The head of one of the three loops stands at a dataset without UUID.
AtMissingId ==
    /\ mpc \in {"verify_for", "spot_for", "update_for"}
    /\ idx <= Len(results)
    /\ results[idx].dataset_number \notin ds_map

\* The datasets of the results that have this kind of request in `requested`.
Asked(kind, timeout) ==
    {i \in 1..Len(results) : Request(kind, results[i].dataset_number, timeout) \in requested}

\* No count, spot-check or mutation request is about a dataset without UUID;
\* each phase that runs to its end has asked for every dataset with one.
SkipsOnlyMissing ==
    /\ \A q \in requested : q.kind # "datasets" => q.ds \in remote_datasets
    /\ mpc = "verify_end" =>
          /\ Asked("count", 0) = WithId
          /\ \A i \in 1..Len(results) : i \notin WithId =>
                \E k \in 1..Len(report) :
                    report[k] = ReportLine(results[i].dataset_number, 0, 0, NOT_IN_TABLE)
    /\ mpc = "spot_end" => Asked("spot", 0) = WithId
    /\ (mpc = "finished" /\ halt = "none" /\ args.update) =>
          /\ Asked("rpc", 30) = WithId
          /\ \A i \in 1..Len(results) : i \notin WithId =>
                \E k \in 1..Len(outcomes) :
                    /\ outcomes[k].dataset_number = results[i].dataset_number
                    /\ outcomes[k].exit = "skipped"

\* C17: a dataset without UUID is passed over by verify_database,
\* verify_page_counts and update_database: the step that meets it issues no
\* request and goes on to the next dataset of the same loop with the run not
\* ended; no request is ever about such a dataset, and every phase that runs
\* to its end has verified or updated every other dataset.
C17_MissingIdSkipped ==
    /\ []SkipsOnlyMissing
    /\ [][AtMissingId =>
             /\ mpc' = mpc
             /\ idx' = idx + 1
             /\ halt' = halt
             /\ requested' = requested
             /\ UNCHANGED <<calls, run_calls, map_fetches>>]_vars

\* An --update run over datasets 1 and 2 of which only 2 has a UUID: 1 is
\* passed over three times, 2 is counted, spot-checked and updated.
C17_Witness ==
    /\ mpc = "finished"
    /\ halt = "none"
    /\ Len(results) = 2
    /\ remote_datasets = {2}
    /\ requested = {Request("datasets", 0, 0), Request("count", 2, 0),
                    Request("spot", 2, 0), Request("rpc", 2, 30)}
    /\ outcomes[1].exit = "skipped"
    /\ outcomes[2].exit = "done"

\* verify_database has just dealt with the count request of results[idx - 1].
JustCounted ==
    /\ mpc = "verify_for"
    /\ idx > 1
    /\ results[idx - 1].dataset_number \in ds_map

\* The run was ended by the count request of results[idx].
HaltedAtCount ==
    /\ mpc = "halted"
    /\ map_fetches = 1
    /\ last_resp # NoResp

ReportedAs(ds) == {report[k].status : k \in {j \in 1..Len(report) : report[j].dataset_number = ds}}

\* C18 as stated: when the count request of a dataset fails, verification
\* goes on and the dataset has no line in the comparison table.
C18_FailedCountOmitted ==
    /\ ~(HaltedAtCount /\ CountFailed(last_resp))
    /\ (JustCounted /\ CountFailed(last_resp)) =>
          ReportedAs(results[idx - 1].dataset_number) = {}

\* What the code does on a failed count request that raises nothing: the
\* dataset is reported with a database count of 0.
FailedCountIsZero ==
    (JustCounted /\ CountFailed(last_resp)) =>
        /\ Last(report).db = 0
        /\ Last(report).opt = results[idx - 1].opt_documents
        /\ Last(report).status = Status(0, results[idx - 1].opt_documents)

-----------------------------------------------------------------------------
(* main's dataset loop: download_file and process_dataset *)

\* The keys of DATASET_PATHS.
DATASET_PATHS == DatasetNumbers

\* `datasets` of main
Datasets == IF args.dataset # 0 THEN <<args.dataset>> ELSE [n \in DatasetNumbers |-> n]

Keys == DatasetNumbers \X {"OPT", "DAT"}

\* A file of the cache directory; `lines` is empty exactly when its size is 0.
File(lines) == [exists |-> TRUE, lines |-> lines]
Absent == [exists |-> FALSE, lines |-> <<>>]

\* A slip: the test of the cache left out.
CachedNever(key) == FALSE

\* dest.exists() and dest.stat().st_size > 0
Cached(key) == cache[key].exists /\ cache[key].lines # <<>>

\* The objects of the bucket: every load file in place, or one of them of
\* zero bytes.
GoodStore ==
    [k \in Keys |-> IF k[2] = "OPT" THEN <<OptLine(BatesA, FlagY)>>
                    ELSE <<StdHeader, DatLine(BatesA, BatesA)>>]

Stores == {GoodStore} \cup {[GoodStore EXCEPT ![k] = <<>>] : k \in Keys}

\* The command lines of a run that parses and reports only.
ParseArgs ==
    {Args(d, FALSE, FALSE, n) : d \in {0, 1, MaxDatasets + 1}, n \in BOOLEAN}

\* The first run of the script on a machine: nothing cached.
InitRunWith(argset, stores, kind, tables, unstamped) ==
    /\ ProcIdle
    /\ HoardIdle
    /\ mpc = "process"
    /\ args \in argset
    /\ ds_i = 1
    /\ cache = [k \in Keys |-> Absent]
    /\ store \in stores
    /\ fetches = [k \in Keys |-> 0]
    /\ contacts = [k \in Keys |-> 0]
    /\ results = <<>>
    /\ remote_datasets \in tables
    /\ ds_map = {}
    /\ idx = 0
    /\ halt = "none"
    /\ ds_total = 0
    /\ batch_num = 0
    /\ consecutive_failures = 0
    /\ attempt = 0
    /\ success = FALSE
    /\ total_updated = 0
    /\ endpoint = kind
    /\ remaining \in unstamped
    /\ stamped = [n \in DOMAIN remaining |-> 0]
    /\ unvalidated = remaining
    /\ calls = 0
    /\ fails = 0
    /\ positives = 0
    /\ rows = 0
    /\ last_resp = NoResp
    /\ outcomes = <<>>
    /\ run_no = 1
    /\ run_calls = 0
    /\ requested = {}
    /\ map_fetches = 0
    /\ VerifyIdle

\* Runs that parse and report only: the database is not looked at.
InitDownload == InitRunWith(ParseArgs, Stores, "mock", {{}}, {<<>>})

not_download_vars ==
    <<results, ds_map, idx, halt, run_no, args, hoard_vars, io_vars, remote_vars, verify_vars,
      spot_vars, update_vars>>

idle_proc_vars ==
    <<opt_file, dat_file, line_no, parts, opt_pages, errors, documents, columns,
      dat_records, dat_opt_match, summary>>

\* A slip: update mode entered without the verification passes.
AfterParseUpdateFirst(a) ==
    IF a.update THEN "update_map" ELSE IF a.verify THEN "verify_map" ELSE "finished"

\* Where main goes after print_report.
AfterParse(a) == IF a.verify \/ a.update THEN "verify_map" ELSE "finished"

\* The head of `for ds_num in datasets` and of process_dataset: the loop is
\* over, the dataset has no path configuration, or its files are asked for.
ProcessNext ==
    /\ mpc = "process"
    /\ pc = "idle"
    /\ IF ds_i > Len(Datasets)
       THEN /\ mpc' = AfterParse(args)
            /\ UNCHANGED <<pc, ds_i>>
       ELSE IF Datasets[ds_i] \notin DATASET_PATHS
       THEN /\ ds_i' = ds_i + 1
            /\ UNCHANGED <<pc, mpc>>
       ELSE /\ pc' = "download_opt"
            /\ UNCHANGED <<mpc, ds_i>>
    /\ UNCHANGED <<idle_proc_vars, cache, store, fetches, contacts, not_download_vars>>

\* download_file returned True: the next file, or the parsers.
Downloaded(ds) ==
    IF pc = "download_opt"
    THEN /\ pc' = "download_dat"
         /\ UNCHANGED <<opt_file, dat_file, ds_i>>
    ELSE /\ pc' = "parse_opt"
         /\ opt_file' = cache'[<<ds, "OPT">>].lines
         /\ dat_file' = cache'[<<ds, "DAT">>].lines
         /\ ds_i' = ds_i

\* download_file returned False: process_dataset returns None.
NotDownloaded ==
    /\ pc' = "idle"
    /\ ds_i' = ds_i + 1
    /\ UNCHANGED <<opt_file, dat_file>>

\* download_file for the file process_dataset is at, and the test of its result.
DownloadFile ==
    /\ mpc = "process"
    /\ pc \in {"download_opt", "download_dat"}
    /\ LET ds == Datasets[ds_i]
           key == <<ds, IF pc = "download_opt" THEN "OPT" ELSE "DAT">>
       IN IF Cached(key)
          THEN /\ UNCHANGED <<cache, fetches, contacts>>
               /\ Downloaded(ds)
          ELSE IF args.no_download
          THEN /\ UNCHANGED <<cache, fetches, contacts>>
               /\ NotDownloaded
          ELSE /\ contacts' = [contacts EXCEPT ![key] = @ + 1]
               /\ \E fetched \in BOOLEAN :
                     IF fetched
                     THEN /\ cache' = [cache EXCEPT ![key] = File(store[key])]
                          /\ fetches' = [fetches EXCEPT ![key] = @ + 1]
                          /\ Downloaded(ds)
                     ELSE /\ UNCHANGED <<cache, fetches>>
                          /\ NotDownloaded
    /\ UNCHANGED <<line_no, parts, opt_pages, errors, documents, columns,
                   dat_records, dat_opt_match, summary, mpc, store, not_download_vars>>

\* process_dataset returns its DatasetResult; main appends it.
FinishDataset ==
    /\ mpc = "process"
    /\ pc = "done"
    /\ results' = Append(results,
          DatasetResult(Datasets[ds_i], opt_pages, documents, columns, dat_records,
                        dat_opt_match))
    /\ ds_i' = ds_i + 1
    /\ pc' = "idle"
    /\ opt_file' = <<>>
    /\ dat_file' = <<>>
    /\ line_no' = 0
    /\ parts' = <<>>
    /\ opt_pages' = <<>>
    /\ errors' = 0
    /\ documents' = <<>>
    /\ columns' = <<>>
    /\ dat_records' = <<>>
    /\ dat_opt_match' = FALSE
    /\ summary' = NoSummary
    /\ UNCHANGED <<mpc, cache, store, fetches, contacts, ds_map, idx, halt, run_no, hoard_vars,
                   args, io_vars, remote_vars, verify_vars, spot_vars, update_vars>>

\* The script is run again with the cache directory as the last run left it.
RunAgain ==
    /\ mpc = "finished"
    /\ run_no < MaxRuns
    /\ run_no' = run_no + 1
    /\ args' \in ParseArgs
    /\ mpc' = "process"
    /\ ds_i' = 1
    /\ results' = <<>>
    /\ UNCHANGED <<proc_vars, cache, store, fetches, contacts, ds_map, idx, halt,
                   hoard_vars, io_vars, remote_vars, verify_vars, spot_vars, update_vars>>

NextDownload ==
    \/ ProcessNext \/ DownloadFile
    \/ ParseOptLine \/ BuildDocuments \/ ParseDatFile \/ CrossValidate
    \/ FinishDataset \/ RunAgain

\* Runs that download, parse and report.
SpecDownload == InitDownload /\ [][NextDownload]_vars

-----------------------------------------------------------------------------
(* Properties of the download step *)

\* The cache file of a key is there and holds at least one byte.
NonEmptyCached(k) == cache[k].exists /\ Len(cache[k].lines) > 0

FilesOf(n) == {<<n, "OPT">>, <<n, "DAT">>}

ResultNumbers == {results[i].dataset_number : i \in 1..Len(results)}

\* C19: a dataset with a load file that is missing or empty after the download
\* step has no result in the run's results; the other datasets are processed.
C19_EmptyFileExcluded ==
    /\ \A n \in ResultNumbers : \A k \in FilesOf(n) : NonEmptyCached(k)
    /\ mpc = "finished" =>
          \A i \in 1..Len(Datasets) :
             (Datasets[i] \in DATASET_PATHS /\ \A k \in FilesOf(Datasets[i]) : NonEmptyCached(k))
                => Datasets[i] \in ResultNumbers

\* What the code keeps of it: a dataset with a missing load file has no
\* result, and a run that ends has a result for every dataset whose two files
\* are in the cache directory.
C19_MissingFileExcluded ==
    /\ \A n \in ResultNumbers : \A k \in FilesOf(n) : cache[k].exists
    /\ mpc = "finished" =>
          \A i \in 1..Len(Datasets) :
             (Datasets[i] \in DATASET_PATHS /\ \A k \in FilesOf(Datasets[i]) : NonEmptyCached(k))
                => Datasets[i] \in ResultNumbers

\* process_dataset is about to call download_file for the file of key k.
AtFile(k) ==
    /\ mpc = "process"
    /\ pc = (IF k[2] = "OPT" THEN "download_opt" ELSE "download_dat")
    /\ Datasets[ds_i] = k[1]

\* One step of a run, seen from the file of key k.
DownloadStep(k) ==
    /\ (contacts'[k] # contacts[k] \/ fetches'[k] # fetches[k])
          => AtFile(k) /\ ~NonEmptyCached(k)
    /\ (AtFile(k) /\ NonEmptyCached(k))
          => /\ contacts' = contacts
             /\ fetches' = fetches
             /\ cache' = cache
             /\ pc' = (IF k[2] = "OPT" THEN "download_dat" ELSE "parse_opt")
    /\ (AtFile(k) /\ ~NonEmptyCached(k) /\ args.no_download)
          => /\ contacts' = contacts
             /\ fetches' = fetches
             /\ results' = results
             /\ mpc' = "process"
             /\ pc' = "idle"
             /\ ds_i' = ds_i + 1

\* C20 as stated: no load file is fetched more than once over the runs.
C20_FetchedOnce == \A k \in Keys : fetches[k] <= 1

\* C20: the object store is contacted only for a cache file that is absent or
\* empty; a cache file that is there and non-empty gives success without a
\* fetch, so over the runs a load file whose object is non-empty is fetched at
\* most once; with --no-download a dataset with a file that is not cached is
\* left out and the run goes on.
C20_CacheResumable ==
    /\ [](\A k \in Keys : fetches[k] <= 1 \/ store[k] = <<>>)
    /\ [][\A k \in Keys : DownloadStep(k)]_vars

\* A second run with --no-download over all datasets ended: dataset 1 was
\* served from the cache a former run filled with one fetch per file, the
\* other dataset, not cached, was left out.
C20_Witness ==
    /\ mpc = "finished"
    /\ run_no = 2
    /\ args.no_download
    /\ args.dataset = 0
    /\ ResultNumbers = {1}
    /\ \A k \in FilesOf(1) : fetches[k] = 1 /\ contacts[k] = 1
    /\ \A k \in Keys \ FilesOf(1) : ~cache[k].exists /\ contacts[k] = 0

-----------------------------------------------------------------------------
(* hoarder/progress.py: ProgressTracker *)

\* mark_uploaded saves when the size of the set is a multiple of this.
SAVE_EVERY == 100

MaxPaths == 2

\* The remote paths the runs look at, by number.
Paths == 1..MaxPaths

\* Remote paths uploaded by earlier runs, one short of a periodic save.
Filler == (SAVE_EVERY + 1)..(2 * SAVE_EVERY - 1)

SourceKeys == {"doj"}

\* An entry of data["sources"]; status "absent" is a key that is not there.
Source(status, uploaded, failed) ==
    [status |-> status, uploaded |-> uploaded, failed |-> failed]

NoSource == Source("absent", 0, 0)

\* The progress file; uploaded_files is kept as the set of its elements.
NoFile == [exists |-> FALSE, sources |-> [k \in SourceKeys |-> NoSource],
           uploaded_files |-> {}]

\* _load: the JSON object of the file, or the initial dict.  A dict read from
\* the file has no "_uploaded_set" and no "_uploaded_files_list" key.
Load(file) ==
    [sources |-> file.sources,
     uploaded_files |-> file.uploaded_files,
     has_set |-> FALSE,
     uploaded_set |-> {},
     uploaded_files_list |-> {}]

\* What _save writes: data.get("_uploaded_files_list", []) for uploaded_files.
Saved(d) ==
    [exists |-> TRUE,
     sources |-> d.sources,
     uploaded_files |-> IF d.has_set THEN d.uploaded_files_list ELSE {}]

\* is_uploaded
IsUploaded(d, remote_path) ==
    remote_path \in (IF d.has_set THEN d.uploaded_set ELSE {})

\* is_source_complete
IsSourceComplete(d, source_key) == d.sources[source_key].status = "complete"

\* data after mark_uploaded(remote_path), before its save
Marked(d, remote_path) ==
    LET seeded == IF d.has_set THEN d.uploaded_set ELSE d.uploaded_files
    IN [d EXCEPT !.has_set = TRUE,
                 !.uploaded_set = seeded \cup {remote_path},
                 !.uploaded_files_list = seeded \cup {remote_path}]

\* mark_uploaded saves
SavesAfterMark(d) == Cardinality(d.uploaded_set) % SAVE_EVERY = 0

\* The stats a caller hands to complete_source.
StatSamples == {[uploaded |-> u, failed |-> f] : u \in 0..1, f \in 0..1}

\* _save, and the record of what was marked before it.
Save(d) ==
    /\ progress_file' = Saved(d)
    /\ saved_marked' = saved_marked \cup marked'

\* ProgressTracker(progress_dir): the script starts, or starts again.
Construct ==
    /\ data' = Load(progress_file)
    /\ fresh' = TRUE
    /\ marked' = {}
    /\ UNCHANGED <<progress_file, saved_marked>>

StartSource(source_key) ==
    /\ data' = [data EXCEPT !.sources[source_key] = Source("in_progress", 0, 0)]
    /\ fresh' = FALSE
    /\ marked' = marked
    /\ Save(data')

CompleteSource(source_key, st) ==
    /\ data' = [data EXCEPT !.sources[source_key] =
                               Source("complete", st.uploaded, st.failed)]
    /\ fresh' = FALSE
    /\ marked' = marked
    /\ Save(data')

FailSource(source_key) ==
    /\ data' = IF data.sources[source_key].status # "absent"
               THEN [data EXCEPT !.sources[source_key].status = "failed"]
               ELSE data
    /\ fresh' = FALSE
    /\ marked' = marked
    /\ Save(data')

MarkUploaded(remote_path) ==
    /\ data' = Marked(data, remote_path)
    /\ fresh' = FALSE
    /\ marked' = marked \cup {remote_path}
    /\ IF SavesAfterMark(data')
       THEN Save(data')
       ELSE UNCHANGED <<progress_file, saved_marked>>

\* The files earlier runs may have left in the progress directory.
FileSamples ==
    {NoFile} \cup {[NoFile EXCEPT !.exists = TRUE, !.uploaded_files = u] : u \in {{}, Filler}}

\* Everything of parse_dat_opt.py at rest.
ScriptIdle ==
    /\ ProcIdle
    /\ MainIdle

\* A tracker was constructed on a progress directory.
InitTracker ==
    /\ ScriptIdle
    /\ UploadIdle
    /\ progress_file \in FileSamples
    /\ data = Load(progress_file)
    /\ fresh = TRUE
    /\ marked = {}
    /\ saved_marked = {}

TrackerStart == \E k \in SourceKeys : StartSource(k) /\ UNCHANGED <<proc_vars, script_vars, upload_vars>>
TrackerComplete ==
    \E k \in SourceKeys, st \in StatSamples :
       CompleteSource(k, st) /\ UNCHANGED <<proc_vars, script_vars, upload_vars>>
TrackerFail == \E k \in SourceKeys : FailSource(k) /\ UNCHANGED <<proc_vars, script_vars, upload_vars>>
TrackerMark == \E p \in Paths : MarkUploaded(p) /\ UNCHANGED <<proc_vars, script_vars, upload_vars>>
Restart == Construct /\ UNCHANGED <<proc_vars, script_vars, upload_vars>>

NextTracker == TrackerStart \/ TrackerComplete \/ TrackerFail \/ TrackerMark \/ Restart

\* Any sequence of tracker operations and restarts.
SpecTracker == InitTracker /\ [][NextTracker]_vars

-----------------------------------------------------------------------------
(* Properties of the progress tracker *)

\* C21: on a tracker that was just constructed, is_uploaded(p) is true for
\* every path p that was marked on a former tracker, saved after that, and is
\* in the progress file the new tracker read.
C21_ResumableTracking ==
    fresh => \A p \in saved_marked \cap progress_file.uploaded_files : IsUploaded(data, p)

\* What the code keeps of it: once mark_uploaded was called on the new
\* tracker, the paths it read from the file are known to is_uploaded.
C21_KnownAfterFirstMark ==
    data.has_set => \A p \in data.uploaded_files : IsUploaded(data, p)

-----------------------------------------------------------------------------
(* Termination of update mode *)

\* One run of update mode against the stamping endpoint, in which
\* update_database keeps running while it can take a step.
SpecTerminate == InitResume /\ [][NextUpdate]_vars /\ WF_vars(NextUpdate)

\* No dataset loop of the run was left otherwise than as DONE or ABORTED
\* (or skipped for want of a UUID).
LoopsHalted ==
    \A i \in 1..Len(outcomes) : outcomes[i].exit \in {"done", "aborted", "skipped"}

\* update_database returned after the last dataset.
ReturnedAfterLast == mpc = "finished" /\ halt = "none" /\ idx > Len(results)

\* A call raised something else than a timeout, or the run issued as many
\* calls as the model follows.
OutsideC22 == halt = "exception" \/ run_calls = MaxCalls

\* C22: when every call returns a status or times out, every dataset loop
\* eventually halts as DONE or ABORTED and update_database returns after the
\* last dataset.
C22_Termination == <>((LoopsHalted /\ ReturnedAfterLast) \/ OutsideC22)

\* What the code keeps of it: the run of update mode ends.
C22_RunEnds == <>(RunEnded \/ run_calls = MaxCalls)

-----------------------------------------------------------------------------
(* The remote calls of a run *)

\* C23: every remote call of a run (the GETs of the dataset mapping, of a
\* document count and of a spot-check sample, the mutation call) is issued
\* with an explicit timeout.
C23_EveryCallTimed == \A r \in requested : r.timeout > 0

\* What the code keeps of it: the mutation calls carry a timeout, and they
\* are the only calls that do.
C23_OnlyRpcTimed == \A r \in requested : r.timeout > 0 <=> r.kind = "rpc"

\* The run went through every phase it was asked for.
RanThrough == mpc = "finished" /\ halt = "none"

\* C24: a run fetches the dataset mapping once, whichever modes it executes.
C24_MapFetchedOnce ==
    /\ map_fetches <= 1
    /\ RanThrough => map_fetches = 1

\* What the code does: one fetch at the start of each of verify_database,
\* verify_page_counts and update_database.
C24_MapFetchedPerFunction ==
    /\ map_fetches <= (IF args.update THEN 3 ELSE 2)
    /\ RanThrough => map_fetches = (IF args.update THEN 3 ELSE 2)

-----------------------------------------------------------------------------
(* The comparison table of verify mode *)

InVerify == mpc \in {"verify_for", "count", "verify_end"}

\* The lines of the table that compare counts.
Compared == {k \in 1..Len(report) : report[k].status # NOT_IN_TABLE}

RECURSIVE SumDb(_)
\* The database counts of the first n lines of the table.
SumDb(n) ==
    IF n = 0 THEN 0
    ELSE SumDb(n - 1) + (IF n \in Compared THEN report[n].db ELSE 0)

RECURSIVE SumOpt(_)
\* The local document counts of the first n results that have a UUID.
SumOpt(n) ==
    IF n = 0 THEN 0
    ELSE SumOpt(n - 1) + (IF HasId(results[n]) THEN results[n].opt_documents ELSE 0)

\* The totals are those of the compared datasets.
TotalsOfCompared ==
    InVerify =>
       /\ total_db = SumDb(Len(report))
       /\ total_opt = SumOpt(IF mpc = "count" THEN idx - 1 ELSE Min(idx - 1, Len(results)))
       /\ Len(report) = (IF mpc = "count" THEN idx - 1 ELSE Min(idx - 1, Len(results)))

\* The branch of line 399: the summary is 'All N datasets match perfectly.'
AllMatch == mismatches = <<>>

\* The summary says all match exactly when no compared dataset is a mismatch.
VerdictOfCompared ==
    mpc = "verify_end" => (AllMatch <=> \A k \in Compared : report[k].status # "MISMATCH")

\* The datastore answered the count request of results[idx - 1] with a count
\* that differs from the local document count.
RemoteCountDiffers ==
    /\ ~CountFailed(last_resp)
    /\ IntOf(CountText(last_resp)) # results[idx - 1].opt_documents

\* C25: a dataset with a UUID is reported MISMATCH exactly when the remote
\* document count differs from the local one; the totals are the sums over the
\* compared datasets; the summary says all match exactly when no compared
\* dataset is a mismatch.
C25_VerifyComparison ==
    /\ JustCounted => (Last(report).status = "MISMATCH" <=> RemoteCountDiffers)
    /\ TotalsOfCompared
    /\ VerdictOfCompared

\* What the code keeps of it: the verdict of a line is the comparison of the
\* count the line shows, which is the datastore's count when it sent one.
C25_ComparisonOfShown ==
    /\ JustCounted =>
          /\ Last(report).status = "MISMATCH" <=> Last(report).db # Last(report).opt
          /\ Last(report).status = "OK" <=> Last(report).db = Last(report).opt
          /\ Last(report).opt = results[idx - 1].opt_documents
          /\ ~CountFailed(last_resp) => Last(report).db = IntOf(CountText(last_resp))
    /\ TotalsOfCompared
    /\ VerdictOfCompared

-----------------------------------------------------------------------------
(* Cross-validation of empty inputs *)

\* C26: when the image-index file yields no page and the metadata file no
\* record (it is empty, or holds a header and at most blank lines),
\* cross_validate is true and the dataset is reported with zero documents and
\* a match.
C26_VacuousMatch ==
    (Done /\ opt_pages = <<>> /\ dat_records = <<>>) =>
        /\ documents = <<>>
        /\ dat_opt_match
        /\ summary.opt_documents = 0
        /\ summary.dat_records = 0
        /\ summary.match_str = "YES"

\* An empty image index with a header-only metadata file.
C26_Witness ==
    /\ Done
    /\ opt_file = <<>>
    /\ dat_file = <<StdHeader>>
    /\ columns = <<BEGIN_BATES, END_BATES>>
    /\ dat_records = <<>>
    /\ dat_opt_match

-----------------------------------------------------------------------------
(* A whole run of main *)

\* The command lines of a run over all datasets that downloads what it needs.
RunArgs == {Args(0, v, u, FALSE) : v \in BOOLEAN, u \in BOOLEAN}

\* A first run against a bucket with every load file and a database that
\* stamps what is left to validate.
InitRun ==
    InitRunWith(RunArgs, {GoodStore}, "rpc", SUBSET DatasetNumbers,
                {[n \in DatasetNumbers |-> c] : c \in {0, 1}})

NextRun ==
    \/ ProcessNext \/ DownloadFile
    \/ ParseOptLine \/ BuildDocuments \/ ParseDatFile \/ CrossValidate
    \/ FinishDataset
    \/ VerifyFetchMap \/ VerifyNextDataset \/ VerifyCount \/ VerifyReturn
    \/ SpotFetchMap \/ SpotNextDataset \/ SpotRequest \/ SpotReturn
    \/ UpdateFetchMap \/ UpdateNextDataset \/ UpdateCall

\* main from its dataset loop to its end.
SpecRun == InitRun /\ [][NextRun]_vars

\* main's loop over the datasets is over.
Parsed == ds_i > Len(Datasets) /\ pc = "idle"

\* update_database was entered in this run.
UpdateEntered ==
    \/ mpc \in {"update_map", "update_for", "call"}
    \/ outcomes # <<>>
    \/ \E r \in requested : r.kind = "rpc"

\* Both verification passes asked the database about every result that has
\* a UUID.
VerifyReadsDone ==
    /\ map_fetches >= 2
    /\ \A i \in WithId :
          /\ Request("count", results[i].dataset_number, 0) \in requested
          /\ Request("spot", results[i].dataset_number, 0) \in requested

PhaseOrder ==
    /\ UpdateEntered => (args.update /\ Parsed /\ VerifyReadsDone)
    /\ (args.update /\ RanThrough) => (VerifyReadsDone /\ map_fetches = 3)

\* A phase is entered only from the end of the phase before it.
PhaseStep ==
    /\ (mpc' = "verify_map" /\ mpc # "verify_map") => (mpc = "process" /\ Parsed)
    /\ (mpc' = "spot_map" /\ mpc # "spot_map") => mpc = "verify_end"
    /\ (mpc' = "update_map" /\ mpc # "update_map") => mpc = "spot_end"
    /\ (\E r \in requested' \ requested : r.kind = "rpc") => mpc = "call"

\* C27: update mode runs only after every dataset was parsed and both
\* verification passes have completed in the same run; no mutation call is
\* issued before that, and a run with --update alone performs the reads of
\* verify mode.
C27_PhaseOrder == []PhaseOrder /\ [][PhaseStep]_vars

\* A run with --update alone that went through: both datasets parsed,
\* counted, spot-checked, and dataset 1 updated.
C27_Witness ==
    /\ args.update
    /\ ~args.verify
    /\ RanThrough
    /\ Len(results) = MaxDatasets
    /\ remote_datasets = DatasetNumbers
    /\ map_fetches = 3
    /\ Request("count", 1, 0) \in requested
    /\ Request("spot", 1, 0) \in requested
    /\ RpcCalled(1)

-----------------------------------------------------------------------------
(* Cross-validation and the names of the metadata columns *)

OTHER_COLUMN == <<"X">>

\* 'begin Bates': the name of the begin column in another case.
LowerBegin == <<"b">> \o Tail(BEGIN_BATES)

\* Headers of three columns or two, with and without the two exact names.
ColHeaders ==
    { Wrapped(BEGIN_BATES \o FieldSep \o END_BATES \o FieldSep \o OTHER_COLUMN),
      Wrapped(OTHER_COLUMN \o FieldSep \o BEGIN_BATES \o FieldSep \o END_BATES),
      Wrapped(LowerBegin \o FieldSep \o END_BATES \o FieldSep \o OTHER_COLUMN),
      Wrapped(BEGIN_BATES \o FieldSep \o OTHER_COLUMN) }

ColLines ==
    {Wrapped(a \o FieldSep \o b \o FieldSep \o c) :
        a \in {BatesA, BatesB}, b \in {BatesA, BatesB}, c \in {BatesA, BatesB}}

ColDatFiles == {<<h>> \o body : h \in ColHeaders, body \in SeqsUpTo(ColLines, MaxDatLines)}

ColOptFiles == SeqsUpTo({OptLine(BatesA, FlagY), OptLine(BatesB, <<>>)}, MaxXVPages)

\* process_dataset on metadata files whose headers name other columns.
InitColumns == InitWith(ColOptFiles, ColDatFiles)
SpecColumns == InitColumns /\ [][Next]_vars

\* A record without its columns other than the two boundary columns.
Boundary(rec) == [c \in DOMAIN rec \cap {BEGIN_BATES, END_BATES} |-> rec[c]]

BoundaryOnly(recs) == [i \in 1..Len(recs) |-> Boundary(recs[i])]

\* The value of a column of a record as the metadata file gives it, the
\* empty string for a column the header does not declare.
FieldOf(rec, name) == IF name \in ColumnSet THEN rec[name] ELSE <<>>

BothDeclared == BEGIN_BATES \in ColumnSet /\ END_BATES \in ColumnSet

\* Every document has both boundary identifiers.
Bounded(docs) == \A i \in 1..Len(docs) : docs[i].efta_start # <<>> /\ docs[i].efta_end # <<>>

\* C28: cross_validate reads the columns named exactly 'Begin Bates' and
\* 'End Bates', an absent column as the empty string; when the header does
\* not declare both, it is false for every non-empty document list with
\* non-empty boundary identifiers; the other columns do not affect it.
C28_ColumnNames ==
    Done =>
       /\ dat_opt_match <=>
             /\ Len(documents) = Len(dat_records)
             /\ \A i \in 1..Len(documents) :
                   /\ documents[i].efta_start = FieldOf(dat_records[i], BEGIN_BATES)
                   /\ documents[i].efta_end = FieldOf(dat_records[i], END_BATES)
       /\ (~BothDeclared /\ documents # <<>> /\ Bounded(documents)) => ~dat_opt_match
       /\ dat_opt_match <=>
             /\ Len(documents) = Len(dat_records)
             /\ MismatchedPairs(documents, BoundaryOnly(dat_records)) = {}

\* A header with 'begin Bates' for 'Begin Bates': the one record carries the
\* identifiers of the one document at the same positions, and does not match.
C28_Witness ==
    /\ Done
    /\ columns = <<LowerBegin, END_BATES, OTHER_COLUMN>>
    /\ Len(documents) = 1
    /\ Len(dat_records) = 1
    /\ dat_records[1][LowerBegin] = documents[1].efta_start
    /\ dat_records[1][END_BATES] = documents[1].efta_end
    /\ ~dat_opt_match

-----------------------------------------------------------------------------
(* The uploaded_files list of the progress file *)

\* No path leaves the list of the progress file in this step.
KeepsPaths == progress_file.uploaded_files \subseteq progress_file'.uploaded_files

\* C29: over any sequence of tracker operations and restarts, a path that is
\* in the uploaded_files list of the progress file is never removed from it.
C29_UploadedMonotone == [][KeepsPaths]_vars

\* What the code keeps of it: no path is removed by a save of a tracker on
\* which mark_uploaded was called before.
C29_MonotoneOnceMarked == [][data.has_set => KeepsPaths]_vars

-----------------------------------------------------------------------------
(* hoarder/uploader.py: upload_directory and its worker threads *)

\* Attempts of upload_file_worker (the default of the MAX_RETRIES variable).
MAX_RETRIES == 3

\* batch_size = workers * 4
BATCH_FACTOR == 4

MaxFiles == 5

\* max_workers the function may settle on (CONCURRENT_UPLOADS, or its cap for
\* large files).
WorkerSamples == {1, 2}

\* An outstanding upload: waiting for a pool thread, in upload_file_worker at
\* some attempt, or finished with the worker's result (attempt 0 then: the
\* result does not tell the attempt).
Future(st, att) == [st |-> st, attempt |-> att]

Finished == {"ok", "failed", "raised"}

NoFutures == [p \in {} |-> Future("queued", 0)]

\* stats
Stats(uploaded, skipped, failed) ==
    [uploaded |-> uploaded, skipped |-> skipped, failed |-> failed]

\* The entries of the manifest that are neither matched by a skip pattern nor
\* known to the tracker, in manifest order.
ToUpload(man, matched, tracked, d) ==
    SelectSeq(man, LAMBDA p : p \notin matched /\ ~(tracked /\ IsUploaded(d, p)))

\* A slip: one future more than batch_size is let in.
RefillRoomOneMore(n, batch_size) == n <= batch_size

\* len(futures) < batch_size
RefillRoom(n, batch_size) == n < batch_size

RECURSIVE Refill(_, _, _, _)
\* refill(): the new `futures` and `idx`, as <<futures, idx>>.
Refill(futs, i, todo, batch_size) ==
    IF RefillRoom(Cardinality(DOMAIN futs), batch_size) /\ i < Len(todo)
    THEN Refill([p \in DOMAIN futs \cup {todo[i + 1]} |->
                    IF p \in DOMAIN futs THEN futs[p] ELSE Future("queued", 0)],
                i + 1, todo, batch_size)
    ELSE <<futs, i>>

\* The submissions of a refill that took `idx` from i to j.
Submit(count, todo, i, j) ==
    [p \in DOMAIN count |->
        count[p] + Cardinality({k \in (i + 1)..j : todo[k] = p})]

\* upload_directory is called on a directory of up to MaxFiles files, with or
\* without a tracker; the tracker may know a path from a source before.
InitUpload ==
    /\ ScriptIdle
    /\ progress_file = NoFile
    /\ use_tracker \in BOOLEAN
    /\ data \in {Load(NoFile)} \cup (IF use_tracker THEN {Marked(Load(NoFile), 2)} ELSE {})
    /\ fresh = FALSE
    /\ marked = {}
    /\ saved_marked = {}
    /\ upc = "start"
    /\ manifest \in {[i \in 1..n |-> i] : n \in 0..MaxFiles}
    /\ skip_matched \in {{}, {1}}
    /\ to_upload = <<>>
    /\ workers = 0
    /\ up_idx = 0
    /\ futures = NoFutures
    /\ stats = Stats(0, 0, 0)
    /\ submitted = [p \in 1..MaxFiles |-> 0]

\* From the manifest to the first refill(), or to the return when nothing is
\* left to upload.
Filter ==
    /\ upc = "start"
    /\ to_upload' = ToUpload(manifest, skip_matched, use_tracker, data)
    /\ stats' = [stats EXCEPT !.skipped = Len(manifest) - Len(to_upload')]
    /\ IF to_upload' = <<>>
       THEN /\ upc' = "returned"
            /\ UNCHANGED <<workers, up_idx, futures, submitted>>
       ELSE /\ workers' \in WorkerSamples
            /\ LET r == Refill(NoFutures, 0, to_upload', workers' * BATCH_FACTOR)
               IN /\ futures' = r[1]
                  /\ up_idx' = r[2]
                  /\ submitted' = Submit(submitted, to_upload', 0, r[2])
            /\ upc' = "wait"
    /\ UNCHANGED <<use_tracker, manifest, skip_matched, tracker_vars, proc_vars, script_vars>>

\* The pool threads that are in upload_file_worker.
Running == {p \in DOMAIN futures : futures[p].st = "running"}

\* The task the pool hands to a free thread: the one submitted first.
NextQueued ==
    {p \in DOMAIN futures :
        /\ futures[p].st = "queued"
        /\ \A q \in DOMAIN futures : futures[q].st = "queued" => p <= q}

\* A pool thread takes a task: os.path.getsize, which raises for a file that
\* is gone, then the first attempt.
WorkerStart ==
    /\ upc = "wait"
    /\ Cardinality(Running) < workers
    /\ \E p \in NextQueued, gone \in BOOLEAN :
          futures' = [futures EXCEPT ![p] =
                         IF gone THEN Future("raised", 0) ELSE Future("running", 0)]
    /\ UNCHANGED <<upc, use_tracker, manifest, skip_matched, to_upload, workers, up_idx,
                   stats, submitted, tracker_vars, proc_vars, script_vars>>

\* One attempt of upload_file_worker: stored, refused as already there,
\* refused for its key, or another error.
WorkerAttempt ==
    /\ upc = "wait"
    /\ \E p \in Running, answer \in {"stored", "exists", "InvalidKey", "error"} :
          futures' = [futures EXCEPT ![p] =
              CASE answer \in {"stored", "exists"} -> Future("ok", 0)
                [] answer = "InvalidKey" -> Future("failed", 0)
                [] OTHER -> IF @.attempt < MAX_RETRIES - 1
                            THEN Future("running", @.attempt + 1)
                            ELSE Future("failed", 0)]
    /\ UNCHANGED <<upc, use_tracker, manifest, skip_matched, to_upload, workers, up_idx,
                   stats, submitted, tracker_vars, proc_vars, script_vars>>

\* One turn of `while futures`: a finished future is taken, accounted for,
\* and the batch refilled; after the last one the function returns its stats.
Collect ==
    /\ upc = "wait"
    /\ \E done \in {p \in DOMAIN futures : futures[p].st \in Finished} :
          LET rest == [p \in DOMAIN futures \ {done} |-> futures[p]]
              r == Refill(rest, up_idx, to_upload, workers * BATCH_FACTOR)
          IN IF futures[done].st = "raised"
             THEN /\ upc' = "raised"
                  /\ futures' = rest
                  /\ UNCHANGED <<up_idx, stats, submitted, tracker_vars>>
             ELSE /\ IF futures[done].st = "ok"
                     THEN /\ stats' = [stats EXCEPT !.uploaded = @ + 1]
                          /\ IF use_tracker
                             THEN MarkUploaded(done)
                             ELSE UNCHANGED tracker_vars
                     ELSE /\ stats' = [stats EXCEPT !.failed = @ + 1]
                          /\ UNCHANGED tracker_vars
                  /\ futures' = r[1]
                  /\ up_idx' = r[2]
                  /\ submitted' = Submit(submitted, to_upload, up_idx, r[2])
                  /\ upc' = IF DOMAIN r[1] = {} THEN "returned" ELSE "wait"
    /\ UNCHANGED <<use_tracker, manifest, skip_matched, to_upload, workers,
                   proc_vars, script_vars>>

NextUpload == Filter \/ WorkerStart \/ WorkerAttempt \/ Collect

\* upload_directory with its pool, under every schedule of the threads.
SpecUpload == InitUpload /\ [][NextUpload]_vars

-----------------------------------------------------------------------------
(* Properties of upload_directory *)

Outstanding == DOMAIN futures

\* The files selected for upload.
Selected == {to_upload[i] : i \in 1..Len(to_upload)}

UploadInv ==
    /\ \A p \in DOMAIN submitted : submitted[p] <= 1
    /\ Cardinality(Outstanding) <= workers * BATCH_FACTOR
    /\ upc = "returned" =>
          /\ Outstanding = {}
          /\ up_idx = Len(to_upload)
          /\ \A p \in DOMAIN submitted : submitted[p] = (IF p \in Selected THEN 1 ELSE 0)
          /\ Cardinality(Selected) = Len(to_upload)
          /\ stats.uploaded + stats.failed = Len(to_upload)
          /\ stats.uploaded + stats.failed + stats.skipped = Len(manifest)

\* A step of a pool thread: the state of a future changes, the set of
\* outstanding futures does not.
WorkerStep == DOMAIN futures' = DOMAIN futures /\ futures' # futures

UploadStep ==
    /\ WorkerStep => UNCHANGED <<stats, tracker_vars, up_idx, submitted, upc>>
    /\ (upc = "wait" /\ upc' = "returned") => (up_idx' = Len(to_upload) /\ futures' = NoFutures)

\* C30: under every completion order of the worker threads, each selected
\* file is submitted exactly once, at most workers * 4 uploads are
\* outstanding, the loop ends only with nothing outstanding and nothing left
\* to submit, on return uploaded + failed is the number of selected files and
\* with skipped the size of the manifest, and the worker threads change
\* neither stats nor the tracker.
C30_UploadAccounting == []UploadInv /\ [][UploadStep]_vars

\* upload_directory returned from a directory with more files than one
\* worker's batch, some uploaded and marked, some failed.
C30_Witness ==
    /\ upc = "returned"
    /\ workers = 1
    /\ use_tracker
    /\ Len(to_upload) = MaxFiles
    /\ stats.failed = 2
    /\ stats.uploaded = MaxFiles - 2
    /\ Cardinality(data.uploaded_set) = MaxFiles - 2

=============================================================================
